---- MODULE Spec2Model ----
(***************************************************************************)
(* Multi-storage aliveness cache and WAL archive daemon of wal-g.          *)
(*                                                                         *)
(* Three specifications share this module:                                 *)
(*   Spec       the WAL daemon: HandleDaemon's accept loop and one Listen  *)
(*              worker per connection (src/unnamed/part_005).              *)
(*   SpecRoute  one process resolving storages through the status cache    *)
(*              (internal/multistorage/cache/status_cache.go).             *)
(*   SpecCache  several processes sharing one cache file                   *)
(*              (status_cache.go and stats/cache/file.go).                 *)
(***************************************************************************)
EXTENDS Integers, Sequences, FiniteSets, TLC

(***************************************************************************)
(* Bounds                                                                  *)
(***************************************************************************)
\* Frames one worker may read from its connection before the model stops it.
MaxFrames == 2

\* The last instant of the model's clock.
MaxTime == 2
\* The cache TTL (status_cache_ttl), in ticks of the clock.
TTL == 1
\* The largest operation_weight_sum the model lets a fact accumulate.
MaxWeight == 3
\* How many check and operation results the processes apply to the cache in all.
MaxOps == 2

\* Accepted connections, each served by its own goroutine (part_005:210).
Conns == {"c1", "c2"}

\* Processes (command executions) that share one cache file.
Procs == {"A", "B"}

\* Requests one daemon process routes through the cache, each on its own goroutine.
Workers == {"w1", "w2"}

(***************************************************************************)
(* Wire constants (package daemon, values fixed by the wire protocol)      *)
(***************************************************************************)
CheckType == 67
WalPushType == 70
WalFetchType == 71
OkType == 79
ArchiveNonExistenceType == 78
ErrorType == 69
\* A type byte that names no message ('X').
UnknownType == 88

MessageTypes == {CheckType, WalPushType, WalFetchType, UnknownType}
ReplyTypes == {OkType, ArchiveNonExistenceType, ErrorType}

\* The configured storages in routing order: the primary, then the failovers.
StorageNames == <<"default", "fo1">>

\* What one storage answers to the read of a WAL segment.
FetchAnswers == {"dead", "found", "notfound", "error"}

VARIABLES
    listening,   \* HandleDaemon's accept loop is running (the process is alive)
    fatalCause,  \* why the process exited: "none", "accept", or a worker's cause
    settings,    \* [pgdata, uploadTimeout]: which settings the configuration has
    pc,          \* per connection: "unaccepted", "reading", "uploading", "closed"
    conn,        \* per connection: [sent: reply bytes written, broken: peer gone,
                 \*   closes: calls of Close, late: a write was tried after Close]
    frames,      \* per connection: frames SocketMessageReader.Next has returned
    last         \* per connection: the request being served (see NoRequest)

VARIABLES
    now,         \* the clock
    file,        \* the cache file: [exists, json, content: key string -> status]
    mem,         \* per process: shMem.Statuses, key -> status
    updated,     \* per process: shFile.Updated, set by NewSharedFile
    held,        \* per process: the merged map Flush holds between its file
                 \*   read and its file write ([active, content])
    flushed,     \* per process: it has called Flush and exited
    ops          \* results applied to the cache so far (see MaxOps)

VARIABLES
    up,          \* per storage: the storage answers requests
    wpc,         \* per routed request: "idle", "probing", "resolved",
                 \*   "opfailed", "noalive", "done"
    wsel,        \* per routed request: the storage resolution selected ("": none)
    wout,        \* per routed request: the storages being probed
    wreply,      \* per routed request: the reply byte written (0: none yet)
    wpol         \* per routed request: the policy of its folder handle

VARIABLES
    pin,         \* the input of the function a function specification applies
    pout         \* its result: [done, ...]

VARIABLES
    mutex,       \* the holder of shMem's mutex in process A ("none": free)
    call         \* per worker of process A: [phase: the cache call it is making
                 \*   or the object-store I/O it waits for, step: how far the
                 \*   call has come, probe: the storages it probes, sel: the
                 \*   storage it selected, ok: how its operation ended, pre: the
                 \*   map and file as they were when it took the mutex, local:
                 \*   what the call has computed and will return]

dvars == <<listening, fatalCause, settings, pc, conn, frames, last>>
cvars == <<now, file, mem, updated, held, flushed, ops>>
rvars == <<up, wpc, wsel, wout, wreply, wpol>>
pvars == <<pin, pout>>
mvars == <<mutex, call>>
vars == <<listening, fatalCause, settings, pc, conn, frames, last,
          now, file, mem, updated, held, flushed, ops,
          up, wpc, wsel, wout, wreply, wpol, pin, pout, mutex, call>>

(***************************************************************************)
(* The daemon                                                              *)
(***************************************************************************)
\* The record of the request a worker serves:
\*   type      the frame's type byte (0: no frame read yet, -1: the read failed)
\*   base      how many reply bytes the connection carried when it was read
\*   upload    HandleWALPush: "none", "inflight", "ok", "failed", "cancelled"
\*   attempts  calls of HandleWALPush made for the request
\*   absent    HandleWALFetch ran and every alive storage answered not-found
\*   dest      HandleWALFetch created the destination file
\*   answers   HandleWALFetch ran: what each storage answered (else << >>)
\*   from      the position of the storage the segment was read from (0: none)
\*   checkWrite  the checkWrite argument handleMessage gave ConfigureMultiStorage
NoRequest ==
    [type |-> 0, base |-> 0, upload |-> "none", attempts |-> 0,
     absent |-> FALSE, dest |-> FALSE, answers |-> << >>, from |-> 0,
     checkWrite |-> FALSE]

\* handleMessage: ConfigureMultiStorage(true), whatever the message type.
CheckWriteFor(t) == TRUE

\* The request of a frame read (t = -1: the read failed and handleMessage
\* is not called).
NewRequest(t, cs) ==
    [NoRequest EXCEPT !.type = t, !.base = Len(cs.sent),
                      !.checkWrite = t # -1 /\ CheckWriteFor(t)]

\* net.Conn.Write of one reply byte: fails once the peer is gone.
ConnWrite(cs, b) ==
    IF cs.closes > 0
    THEN [conn |-> [cs EXCEPT !.late = TRUE], err |-> "SocketWriteFailed"]
    ELSE IF cs.broken
    THEN [conn |-> cs, err |-> "SocketWriteFailed"]
    ELSE [conn |-> [cs EXCEPT !.sent = Append(@, b)], err |-> "nil"]

\* Mutant: Listen returns without closing its connection.
LoggedClose_Leaves(cs) == cs

\* Listen's deferred utility.LoggedClose(c, ...): it runs when Listen returns,
\* after everything else the worker did.
LoggedClose(cs) == [cs EXCEPT !.closes = @ + 1]

\* Mutant: the failure path logs and writes nothing to the connection.
failAndLogError_Silent(cs) == cs

failAndLogError(cs) == ConnWrite(cs, ErrorType).conn

CheckHandle(cs) == ConnWrite(cs, OkType)

\* getFullPath: PGDATA must be set.
getFullPath(st) == IF st.pgdata THEN "nil" ELSE "PGDATA is not set"

\* GetDurationSetting(PgDaemonWALUploadTimeout)
GetDurationSetting(st) == IF st.uploadTimeout THEN "nil" ELSE "UnsetRequiredSetting"

\* ArchiveMessageHandler.Handle up to the call of HandleWALPush: the error it
\* returns early, or "nil" when the upload starts.
ArchiveBegin(st) ==
    IF getFullPath(st) # "nil" THEN getFullPath(st)
    ELSE IF GetDurationSetting(st) # "nil" THEN GetDurationSetting(st)
    ELSE "nil"

\* Mutant: the handler answers Ok whatever HandleWALPush returned.
ArchiveEnd_AlwaysOk(cs, uploadErr) == ConnWrite(cs, OkType)

\* ArchiveMessageHandler.Handle from the return of HandleWALPush on.
ArchiveEnd(cs, uploadErr) ==
    IF uploadErr # "nil"
    THEN [conn |-> cs, err |-> "file archiving failed"]
    ELSE ConnWrite(cs, OkType)

\* Mutant: the handler calls HandleWALPush again after a failure.
ArchiveOnUploadError_Retry(uploadErr) == "retry"

\* What the handler does when HandleWALPush has failed: it gives up ("fail");
\* it never calls HandleWALPush again ("retry").
ArchiveOnUploadError(uploadErr) == "fail"

\* The multi-storage reader behind HandleWALFetch: the alive storages are read
\* in routing order, a not-found answer falls through to the next one.
RECURSIVE ReadFromAlive(_, _)
ReadFromAlive(answers, i) ==
    IF i > Len(answers) THEN [err |-> "ArchiveNonExistence", from |-> 0]
    ELSE IF answers[i] = "found" THEN [err |-> "nil", from |-> i]
    ELSE IF answers[i] = "error" THEN [err |-> "error", from |-> 0]
    ELSE ReadFromAlive(answers, i + 1)

HandleWALFetch(answers) == ReadFromAlive(answers, 1).err

NoAliveStorage(answers) == \A i \in DOMAIN answers : answers[i] = "dead"

\* Mutant: ArchiveNonExistenceError is handled like any other fetch error.
WalFetchHandle_NoNonExistence(cs, st, nargs, answers) ==
    IF nargs # 2 THEN [conn |-> cs, err |-> "incorrect arguments count"]
    ELSE IF getFullPath(st) # "nil" THEN [conn |-> cs, err |-> getFullPath(st)]
    ELSE IF HandleWALFetch(answers) # "nil" THEN [conn |-> cs, err |-> "WAL fetch failed"]
    ELSE ConnWrite(cs, OkType)

\* Mutant: every error of HandleWALFetch is answered ArchiveNonExistence.
WalFetchHandle_AllNonExistence(cs, st, nargs, answers) ==
    IF nargs # 2 THEN [conn |-> cs, err |-> "incorrect arguments count"]
    ELSE IF getFullPath(st) # "nil" THEN [conn |-> cs, err |-> getFullPath(st)]
    ELSE IF HandleWALFetch(answers) # "nil" THEN ConnWrite(cs, ArchiveNonExistenceType)
    ELSE ConnWrite(cs, OkType)

\* WalFetchMessageHandler.Handle: nargs is len(args) after BytesToArgs.
WalFetchHandle(cs, st, nargs, answers) ==
    IF nargs # 2 THEN [conn |-> cs, err |-> "incorrect arguments count"]
    ELSE IF getFullPath(st) # "nil" THEN [conn |-> cs, err |-> getFullPath(st)]
    ELSE LET err == HandleWALFetch(answers) IN
         IF err = "ArchiveNonExistence" THEN ConnWrite(cs, ArchiveNonExistenceType)
         ELSE IF err # "nil" THEN [conn |-> cs, err |-> "WAL fetch failed"]
         ELSE ConnWrite(cs, OkType)

\* Whether WalFetchMessageHandler.Handle reaches the call of HandleWALFetch.
FetchRuns(st, nargs) == nargs = 2 /\ getFullPath(st) = "nil"

\* Mutant: a type byte that names no message is handled as a Check.
NewMessageHandler_ChecksByDefault(t) ==
    IF t = WalPushType THEN "archive"
    ELSE IF t = WalFetchType THEN "fetch"
    ELSE "check"

\* NewMessageHandler: the handler for a type byte, "nil" for an unknown one.
NewMessageHandler(t) ==
    IF t = CheckType THEN "check"
    ELSE IF t = WalPushType THEN "archive"
    ELSE IF t = WalFetchType THEN "fetch"
    ELSE "nil"

\* Mutant: Listen returns only on an error, it loops after every handled frame.
ListenAfter_AlwaysLoops(t, err) == IF err # "nil" THEN "fail" ELSE "loop"

\* Listen, after handleMessage has returned err for a frame of type t: the
\* worker answers Error and returns, returns, or reads the next frame.
ListenAfter(t, err) ==
    IF err # "nil" THEN "fail"
    ELSE IF t = WalPushType THEN "return"
    ELSE IF t = WalFetchType THEN "return"
    ELSE "loop"

\* Mutant: the worker's failure path logs with ErrorLogger.Fatal as well.
FailureIsFatal_Everywhere(site) == TRUE

\* How an error is logged at a site of the daemon: HandleDaemon logs a failed
\* Listen/Accept on the socket with ErrorLogger.Fatal, which ends the process;
\* failAndLogError logs with ErrorLogger.Printf, which does not.
FailureIsFatal(site) == site = "accept"

\* A worker's failure path: failAndLogError, then the deferred close.
Fail(c, cs) ==
    /\ conn' = [conn EXCEPT ![c] = LoggedClose(failAndLogError(cs))]
    /\ pc' = [pc EXCEPT ![c] = "closed"]
    /\ listening' = ~FailureIsFatal("listen")
    /\ fatalCause' = IF FailureIsFatal("listen") THEN "listen" ELSE fatalCause

\* The connection state and the worker's position after handleMessage.
Finish(c, t, r) ==
    LET next == ListenAfter(t, r.err) IN
    IF next = "fail" THEN Fail(c, r.conn)
    ELSE /\ conn' = [conn EXCEPT ![c] = IF next = "loop" THEN r.conn ELSE LoggedClose(r.conn)]
         /\ pc' = [pc EXCEPT ![c] = IF next = "loop" THEN "reading" ELSE "closed"]
         /\ UNCHANGED <<listening, fatalCause>>

\* No cache file.
NoFile == [exists |-> FALSE, json |-> FALSE, content |-> << >>]

\* The cache variables of a specification that does not use the cache.
CIdle ==
    /\ now = 0
    /\ file = NoFile
    /\ mem = [p \in Procs |-> << >>]
    /\ updated = [p \in Procs |-> 0]
    /\ held = [p \in Procs |-> [active |-> FALSE, content |-> << >>]]
    /\ flushed = [p \in Procs |-> FALSE]
    /\ ops = 0

\* A worker that is making no cache call.
NoCall ==
    [phase |-> "idle", step |-> "none", probe |-> {}, sel |-> "", ok |-> FALSE,
     pre |-> << >>, local |-> << >>]

\* The mutex and the workers of a specification that does not follow the
\* steps of a cache call.
XIdle ==
    /\ mutex = "none"
    /\ call = [w \in {"w1", "w2"} |-> NoCall]

\* The function variables of a specification that applies no function.
PIdle ==
    /\ pin = << >>
    /\ pout = << >>

\* The routing variables of a specification that routes no request.
RIdle ==
    /\ up = [n \in {StorageNames[i] : i \in DOMAIN StorageNames} |-> TRUE]
    /\ wpc = [w \in Workers |-> "idle"]
    /\ wsel = [w \in Workers |-> ""]
    /\ wout = [w \in Workers |-> {}]
    /\ wreply = [w \in Workers |-> 0]
    /\ wpol = [w \in Workers |-> "FirstAlive"]

DInit ==
    /\ CIdle
    /\ RIdle
    /\ PIdle
    /\ XIdle
    /\ listening = TRUE
    /\ fatalCause = "none"
    /\ settings \in [pgdata : BOOLEAN, uploadTimeout : BOOLEAN]
    /\ pc = [c \in Conns |-> "unaccepted"]
    /\ conn = [c \in Conns |-> [sent |-> <<>>, broken |-> FALSE, closes |-> 0, late |-> FALSE]]
    /\ frames = [c \in Conns |-> 0]
    /\ last = [c \in Conns |-> NoRequest]

\* HandleDaemon: l.Accept() returns a connection, go Listen(fd).
Accept(c) ==
    /\ listening
    /\ UNCHANGED <<cvars, rvars, pvars, mvars>>
    /\ pc[c] = "unaccepted"
    /\ pc' = [pc EXCEPT ![c] = "reading"]
    /\ UNCHANGED <<listening, fatalCause, settings, conn, frames, last>>

\* HandleDaemon: l.Accept() fails, tracelog.ErrorLogger.Fatal ends the process.
AcceptFail ==
    /\ listening
    /\ UNCHANGED <<cvars, rvars, pvars, mvars>>
    /\ FailureIsFatal("accept")
    /\ listening' = FALSE
    /\ fatalCause' = "accept"
    /\ UNCHANGED <<settings, pc, conn, frames, last>>

\* The client goes away (closes its socket): later writes to it fail.
ClientGone(c) ==
    /\ listening
    /\ UNCHANGED <<cvars, rvars, pvars, mvars>>
    /\ pc[c] \in {"reading", "uploading"}
    /\ ~conn[c].broken
    /\ conn' = [conn EXCEPT ![c].broken = TRUE]
    /\ UNCHANGED <<listening, fatalCause, settings, pc, frames, last>>

\* Listen: messageReader.Next() fails (short read, end of stream).
ReadError(c) ==
    /\ listening
    /\ UNCHANGED <<cvars, rvars, pvars, mvars>>
    /\ pc[c] = "reading"
    /\ last' = [last EXCEPT ![c] = NewRequest(-1, conn[c])]
    /\ Fail(c, conn[c])
    /\ UNCHANGED <<settings, frames>>

\* Listen reads a frame and ConfigureMultiStorage fails for it.
RecvConfigureFails(c) ==
    /\ listening
    /\ UNCHANGED <<cvars, rvars, pvars, mvars>>
    /\ pc[c] = "reading"
    /\ frames[c] < MaxFrames
    /\ \E t \in MessageTypes :
         /\ last' = [last EXCEPT ![c] = NewRequest(t, conn[c])]
         /\ Finish(c, t, [conn |-> conn[c], err |-> "configure multi-storage"])
    /\ frames' = [frames EXCEPT ![c] = @ + 1]
    /\ UNCHANGED settings

\* Listen reads a Check frame.
RecvCheck(c) ==
    /\ listening
    /\ UNCHANGED <<cvars, rvars, pvars, mvars>>
    /\ pc[c] = "reading"
    /\ frames[c] < MaxFrames
    /\ \E t \in MessageTypes :
         /\ NewMessageHandler(t) = "check"
         /\ last' = [last EXCEPT ![c] = NewRequest(t, conn[c])]
         /\ Finish(c, t, CheckHandle(conn[c]))
    /\ frames' = [frames EXCEPT ![c] = @ + 1]
    /\ UNCHANGED settings

\* Listen reads a frame whose type byte names no message.
RecvUnknown(c) ==
    /\ listening
    /\ UNCHANGED <<cvars, rvars, pvars, mvars>>
    /\ pc[c] = "reading"
    /\ frames[c] < MaxFrames
    /\ \E t \in MessageTypes :
         /\ NewMessageHandler(t) = "nil"
         /\ last' = [last EXCEPT ![c] = NewRequest(t, conn[c])]
         /\ Finish(c, t, [conn |-> conn[c], err |-> "unexpected message type"])
    /\ frames' = [frames EXCEPT ![c] = @ + 1]
    /\ UNCHANGED settings

\* Listen reads a WalFetch frame; the handler runs to its reply.
RecvWalFetch(c) ==
    /\ listening
    /\ UNCHANGED <<cvars, rvars, pvars, mvars>>
    /\ pc[c] = "reading"
    /\ frames[c] < MaxFrames
    /\ NewMessageHandler(WalFetchType) = "fetch"
    /\ \E nargs \in 1..3, answers \in [DOMAIN StorageNames -> FetchAnswers] :
         LET runs == ~NoAliveStorage(answers) /\ FetchRuns(settings, nargs)
             r == IF NoAliveStorage(answers)
                  THEN [conn |-> conn[c], err |-> "init handler"]
                  ELSE WalFetchHandle(conn[c], settings, nargs, answers)
         IN /\ last' = [last EXCEPT ![c] =
                         [NewRequest(WalFetchType, conn[c]) EXCEPT
                            !.absent = runs /\ HandleWALFetch(answers) = "ArchiveNonExistence",
                            !.dest = runs /\ HandleWALFetch(answers) = "nil",
                            !.answers = IF runs THEN answers ELSE << >>,
                            !.from = IF runs THEN ReadFromAlive(answers, 1).from ELSE 0]]
            /\ Finish(c, WalFetchType, r)
    /\ frames' = [frames EXCEPT ![c] = @ + 1]
    /\ UNCHANGED settings

\* Listen reads a WalPush frame: the handler fails before the upload, or calls
\* HandleWALPush under the push timeout.
RecvWalPush(c) ==
    /\ listening
    /\ UNCHANGED <<cvars, rvars, pvars, mvars>>
    /\ pc[c] = "reading"
    /\ frames[c] < MaxFrames
    /\ NewMessageHandler(WalPushType) = "archive"
    /\ \E noAlive \in BOOLEAN :
         LET err == IF noAlive THEN "init handler" ELSE ArchiveBegin(settings) IN
         IF err # "nil"
         THEN /\ last' = [last EXCEPT ![c] = NewRequest(WalPushType, conn[c])]
              /\ Finish(c, WalPushType, [conn |-> conn[c], err |-> err])
         ELSE /\ last' = [last EXCEPT ![c] =
                           [NewRequest(WalPushType, conn[c]) EXCEPT
                              !.upload = "inflight", !.attempts = 1]]
              /\ pc' = [pc EXCEPT ![c] = "uploading"]
              /\ UNCHANGED <<conn, listening, fatalCause>>
    /\ frames' = [frames EXCEPT ![c] = @ + 1]
    /\ UNCHANGED settings

\* HandleWALPush returns nil: the segment is in the chosen storage.
UploadSucceeds(c) ==
    /\ listening
    /\ UNCHANGED <<cvars, rvars, pvars, mvars>>
    /\ pc[c] = "uploading"
    /\ last' = [last EXCEPT ![c].upload = "ok"]
    /\ Finish(c, WalPushType, ArchiveEnd(conn[c], "nil"))
    /\ UNCHANGED <<settings, frames>>

\* HandleWALPush returns an error: the upload failed (result "failed"), or the
\* push timeout elapsed and the context cancelled it (result "cancelled").
UploadFails(c, result) ==
    /\ listening
    /\ UNCHANGED <<cvars, rvars, pvars, mvars>>
    /\ pc[c] = "uploading"
    /\ IF ArchiveOnUploadError(result) = "retry"
       THEN /\ last[c].attempts <= MaxFrames
            /\ last' = [last EXCEPT ![c].attempts = @ + 1]
            /\ UNCHANGED <<pc, conn, listening, fatalCause>>
       ELSE /\ last' = [last EXCEPT ![c].upload = result]
            /\ Finish(c, WalPushType, ArchiveEnd(conn[c], result))
    /\ UNCHANGED <<settings, frames>>

DNext ==
    \/ AcceptFail
    \/ \E c \in Conns :
         \/ Accept(c)
         \/ ClientGone(c)
         \/ ReadError(c)
         \/ RecvConfigureFails(c)
         \/ RecvCheck(c)
         \/ RecvUnknown(c)
         \/ RecvWalFetch(c)
         \/ RecvWalPush(c)
         \/ UploadSucceeds(c)
         \/ UploadFails(c, "failed")
         \/ UploadFails(c, "cancelled")

Spec == DInit /\ [][DNext]_vars

(***************************************************************************)
(* Handler deadlines: a storage operation that never completes             *)
(***************************************************************************)
\* Whether the handler of a message type runs its storage operation under a
\* deadline: ArchiveMessageHandler.Handle wraps HandleWALPush in
\* context.WithTimeout(ctx, pushTimeout); WalFetchMessageHandler.Handle drops
\* its context (the parameter is _) and calls HandleWALFetch without one, and
\* the worker's own context is context.Background().
HasDeadline(t) == t = WalPushType

\* Listen reads a WalFetch frame and the storage read behind HandleWALFetch
\* never returns: the worker stays inside the handler.
FetchStalls(c) ==
    /\ listening
    /\ UNCHANGED <<cvars, rvars, pvars, mvars>>
    /\ pc[c] = "reading"
    /\ frames[c] < MaxFrames
    /\ NewMessageHandler(WalFetchType) = "fetch"
    /\ \E nargs \in 1..3 : FetchRuns(settings, nargs)
    /\ last' = [last EXCEPT ![c] = NewRequest(WalFetchType, conn[c])]
    /\ pc' = [pc EXCEPT ![c] = "fetching"]
    /\ frames' = [frames EXCEPT ![c] = @ + 1]
    /\ UNCHANGED <<listening, fatalCause, settings, conn>>

\* The deadline of the handler in flight passes: its context is cancelled and
\* the storage operation returns the context's error.
DeadlinePasses(c) ==
    /\ pc[c] \in {"uploading", "fetching"}
    /\ HasDeadline(last[c].type)
    /\ IF pc[c] = "uploading"
       THEN UploadFails(c, "cancelled")
       ELSE /\ listening
            /\ UNCHANGED <<cvars, rvars, pvars, mvars>>
            /\ Finish(c, WalFetchType, [conn |-> conn[c], err |-> "context deadline exceeded"])
            /\ UNCHANGED <<settings, frames, last>>

HNext ==
    \/ DNext
    \/ \E c \in Conns :
         \/ FetchStalls(c)
         \/ DeadlinePasses(c)

\* The timer of a deadline fires if the handler is still in flight; nothing
\* else is promised: clients may stay silent and storages may never answer.
SpecDeadline ==
    DInit /\ [][HNext]_vars /\ \A c \in Conns : WF_vars(DeadlinePasses(c))

(***************************************************************************)
(* The status cache (package cache)                                        *)
(***************************************************************************)
\* shFileFlushTimeout: 5 minutes, in ticks of 150 s.
FlushTimeout == 2

\* The weight a folder operation reports: reads weigh 1, writes 3.
ReadWeight == 1
WriteWeight == 3

Names == {StorageNames[i] : i \in DOMAIN StorageNames}

\* The storage names a caller may ask about, in the order it gives them.
NameLists == {<<"default">>, <<"fo1">>, <<"default", "fo1">>}

\* Key{} and storageStatus{}: Go's zero values.
ZeroKey == [Name |-> "", Hash |-> ""]
ZeroStatus == [Alive |-> FALSE, Checked |-> -1, Weight |-> 0]

\* cache.usedKeys: the key of every storage name this cache may be asked about.
usedKeys == [n \in Names |-> [Name |-> n, Hash |-> "cfg"]]

\* A Go map read, s[k]: the zero value for a missing key.
StatusAt(s, k) == IF k \in DOMAIN s THEN s[k] ELSE ZeroStatus

\* A Go map write, s[k] = v.
Put(s, k, v) == [x \in DOMAIN s \cup {k} |-> IF x = k THEN v ELSE s[x]]

\* storageStatus.isRelevant: the fact is no older than the TTL.
statusIsRelevant(st, t) == st.Checked >= 0 /\ t - st.Checked <= TTL

\* storageStatuses.isRelevant(ttl, keys...): every key has a relevant fact.
isRelevant(s, keys, t) ==
    \A i \in DOMAIN keys : keys[i] \in DOMAIN s /\ statusIsRelevant(s[keys[i]], t)

\* Mutant: the first map's fact always wins.
laterStatus_First(x, y) == x

\* Of two facts of one key: the later one; of two equally late ones the alive
\* one; of two that agree in both the first (the rule names no other winner).
laterStatus(x, y) ==
    IF x.Checked > y.Checked THEN x
    ELSE IF y.Checked > x.Checked THEN y
    ELSE IF x.Alive THEN x
    ELSE IF y.Alive THEN y
    ELSE x

mergeByRelevance(a, b) ==
    [k \in DOMAIN a \cup DOMAIN b |->
        IF k \notin DOMAIN b THEN a[k]
        ELSE IF k \notin DOMAIN a THEN b[k]
        ELSE laterStatus(a[k], b[k])]

\* storageStatuses.splitByRelevance(ttl, keys): the requested keys with a
\* relevant fact, and the others (a missing key with the zero status).
splitRelevant(s, keys, t) ==
    LET ks == {keys[i] : i \in DOMAIN keys} IN
    [k \in {x \in ks : x \in DOMAIN s /\ statusIsRelevant(s[x], t)} |-> s[k]]

splitOutdated(s, keys, t) ==
    LET ks == {keys[i] : i \in DOMAIN keys} IN
    [k \in {x \in ks : ~(x \in DOMAIN s /\ statusIsRelevant(s[x], t))} |-> StatusAt(s, k)]

\* storageStatuses.filter(keys)
filter(s, keys) ==
    [k \in {x \in DOMAIN s : \E i \in DOMAIN keys : keys[i] = x} |-> s[k]]

\* storageStatuses.aliveMap(): storage name -> alive.
aliveMap(s) ==
    [n \in {k.Name : k \in DOMAIN s} |->
        (CHOOSE k \in DOMAIN s : k.Name = n) \in {k \in DOMAIN s : s[k].Alive}]

\* Mutant: the map is replaced by the facts of the checked keys.
applyExplicitCheckResult_Replaces(s, byKeys, t) ==
    [k \in DOMAIN byKeys |-> [Alive |-> byKeys[k], Checked |-> t, Weight |-> 0]]

\* storageStatuses.applyExplicitCheckResult: the checked keys get a new fact.
applyExplicitCheckResult(s, byKeys, t) ==
    [k \in DOMAIN s \cup DOMAIN byKeys |->
        IF k \in DOMAIN byKeys
        THEN [Alive |-> byKeys[k], Checked |-> t, Weight |-> 0]
        ELSE s[k]]

\* Mutant: a storage once recorded dead is not made alive by an operation.
applyOperationResult_StaysDead(st, alive, weight, t) ==
    [Alive |-> alive /\ (st.Alive \/ st.Checked < 0), Checked |-> t,
     Weight |-> st.Weight + weight]

\* Mutant: a reported operation leaves the time of the fact as it was.
applyOperationResult_KeepsTime(st, alive, weight, t) ==
    [Alive |-> alive, Checked |-> st.Checked, Weight |-> st.Weight + weight]

\* storageStatus.applyOperationResult(alive, weight, time.Now())
applyOperationResult(st, alive, weight, t) ==
    [Alive |-> alive, Checked |-> t, Weight |-> st.Weight + weight]

\* cache.correspondingKeys: make([]Key, len(names)) holds len(names) zero
\* keys, and the keys of the names are appended after them.
correspondingKeys(names) ==
    [i \in 1..Len(names) |-> ZeroKey] \o [i \in 1..Len(names) |-> usedKeys[names[i]]]

\* The strings that occur as a storage name or a configuration hash, each as
\* the sequence of its pieces, the character '#' being a piece of its own.
Pieces ==
    [s \in {"default", "fo1", "cfg", "", "fo#2", "fo", "2#cfg"} |->
        CASE s = "" -> << >>
          [] s = "fo#2" -> <<"fo", "#", "2">>
          [] s = "2#cfg" -> <<"2", "#", "cfg">>
          [] OTHER -> <<s>>]

\* The string made of the given pieces.
Joined(ps) == CHOOSE s \in DOMAIN Pieces : Pieces[s] = ps

\* Key.String: "<name>#<config_hash>".
KeyString(k) == Pieces[k.Name] \o <<"#">> \o Pieces[k.Hash]

\* Mutant: the key string is cut at its first '#'.
ParseKey_FirstDelim(str) ==
    LET delim == CHOOSE i \in DOMAIN str :
                     str[i] = "#" /\ \A j \in 1..(i - 1) : str[j] # "#"
    IN [Name |-> Joined(SubSeq(str, 1, delim - 1)),
        Hash |-> Joined(SubSeq(str, delim + 1, Len(str)))]

\* ParseKey: the key string is cut at its last '#' (a hash holds none).
ParseKey(str) ==
    LET delim == CHOOSE i \in DOMAIN str :
                     str[i] = "#" /\ \A j \in (i + 1)..Len(str) : str[j] # "#"
    IN [Name |-> Joined(SubSeq(str, 1, delim - 1)),
        Hash |-> Joined(SubSeq(str, delim + 1, Len(str)))]

\* A file that is there and cannot be locked, read or parsed.
Failing(f) == [exists |-> TRUE, json |-> FALSE, content |-> f.content]

\* Every key a status map may hold: the keys of the configured names, with and
\* without '#', and the zero key.
AllKeys ==
    {[Name |-> n, Hash |-> "cfg"] : n \in {"default", "fo1", "fo#2"}} \cup {ZeroKey}

\* key.String() of every key, and ParseKey(str) of every key string.
named == [k \in AllKeys |-> KeyString(k)]
parsed == [str \in {named[k] : k \in AllKeys} |-> ParseKey(str)]

\* Mutant: whatever the file holds is taken for its content.
fileRead_TrustsFile(f) ==
    IF f.exists
    THEN [err |-> FALSE,
          content |-> [k \in {parsed[str] : str \in DOMAIN f.content} |->
                          f.content[CHOOSE str \in DOMAIN f.content : parsed[str] = k]]]
    ELSE [err |-> TRUE, content |-> << >>]

\* SharedFile.read: a file that cannot be opened, locked, read or parsed is an
\* error and no map; otherwise the JSON object is parsed and each of its members is stored under
\* the key its name parses to.
fileRead(f) ==
    IF f.exists /\ f.json
    THEN [err |-> FALSE,
          content |-> [k \in {parsed[str] : str \in DOMAIN f.content} |->
                          f.content[CHOOSE str \in DOMAIN f.content : parsed[str] = k]]]
    ELSE [err |-> TRUE, content |-> << >>]

\* SharedFile.write: the map becomes a JSON object with one member per key,
\* named by the key's string; under the exclusive lock the file is truncated
\* to the length of that text and the text is written from offset 0.
fileWrite(f, content) ==
    [exists |-> TRUE,
     json |-> TRUE,
     content |-> [str \in {named[k] : k \in DOMAIN content} |->
                     content[CHOOSE k \in DOMAIN content : named[k] = str]]]

\* time.Since(c.shFile.Updated) < c.shFileFlushTimeout
shFileRelevant(upd, t) == t - upd < FlushTimeout

\* Mutant: Read reports every requested storage as outdated.
cacheRead_AllOutdated(m, f, names, t) ==
    LET keys == correspondingKeys(names)
        merged == mergeByRelevance(m, fileRead(f).content)
    IN [mem |-> merged,
        relevant |-> << >>,
        outdated |-> aliveMap(splitRelevant(merged, keys, t))
                       @@ aliveMap(splitOutdated(merged, keys, t)),
        fileRead |-> TRUE]

\* Mutant: Read leaves the in-memory map as it was and splits that.
cacheRead_ForgetsFile(m, f, names, t) ==
    LET keys == correspondingKeys(names) IN
    [mem |-> m,
     relevant |-> aliveMap(splitRelevant(m, keys, t)),
     outdated |-> aliveMap(splitOutdated(m, keys, t)),
     fileRead |-> TRUE]

\* cache.Read: the new in-memory map and the two maps returned.
cacheRead(m, f, names, t) ==
    LET keys == correspondingKeys(names) IN
    IF isRelevant(m, keys, t)
    THEN [mem |-> m, relevant |-> aliveMap(m), outdated |-> << >>, fileRead |-> FALSE]
    ELSE LET merged == mergeByRelevance(m, fileRead(f).content) IN
         [mem |-> merged,
          relevant |-> aliveMap(splitRelevant(merged, keys, t)),
          outdated |-> aliveMap(splitOutdated(merged, keys, t)),
          fileRead |-> TRUE]

\* Mutant: the alive map returned is taken from the map before the results
\* were applied.
cacheApplyExplicit_StaleAlive(m, upd, checkResult, names, t) ==
    LET byKeys == [k \in {usedKeys[n] : n \in DOMAIN checkResult \cap Names} |->
                      checkResult[k.Name]]
        m2 == applyExplicitCheckResult(m, byKeys, t)
    IN [mem |-> m2,
        alive |-> aliveMap(filter(m, correspondingKeys(names))),
        write |-> ~shFileRelevant(upd, t),
        content |-> m2]

\* Mutant: only the storages found alive are recorded.
cacheApplyExplicit_DropsDead(m, upd, checkResult, names, t) ==
    LET byKeys == [k \in {usedKeys[n] : n \in {x \in DOMAIN checkResult \cap Names :
                                                  checkResult[x]}} |-> TRUE]
        m2 == applyExplicitCheckResult(m, byKeys, t)
    IN [mem |-> m2,
        alive |-> aliveMap(filter(m2, correspondingKeys(names))),
        write |-> ~shFileRelevant(upd, t),
        content |-> m2]

\* cache.ApplyExplicitCheckResult: the new in-memory map, the map returned
\* and the content written to the file, if the file is written.
cacheApplyExplicit(m, upd, checkResult, names, t) ==
    LET byKeys == [k \in {usedKeys[n] : n \in DOMAIN checkResult \cap Names} |->
                      checkResult[k.Name]]
        m2 == applyExplicitCheckResult(m, byKeys, t)
    IN [mem |-> m2,
        alive |-> aliveMap(filter(m2, correspondingKeys(names))),
        write |-> ~shFileRelevant(upd, t),
        content |-> m2]

\* Mutant: the result of a failed operation is not recorded.
cacheApplyOperation_DropsFailure(m, upd, storage, alive, weight, t) ==
    LET key == IF storage \in Names THEN usedKeys[storage] ELSE ZeroKey
        m2 == IF alive
              THEN Put(m, key, applyOperationResult(StatusAt(m, key), alive, weight, t))
              ELSE m
    IN [mem |-> m2, write |-> ~shFileRelevant(upd, t), content |-> m2]

\* cache.ApplyOperationResult
cacheApplyOperation(m, upd, storage, alive, weight, t) ==
    LET key == IF storage \in Names THEN usedKeys[storage] ELSE ZeroKey
        m2 == Put(m, key, applyOperationResult(StatusAt(m, key), alive, weight, t))
    IN [mem |-> m2, write |-> ~shFileRelevant(upd, t), content |-> m2]

\* The daemon's variables in a specification without the daemon.
DIdle ==
    /\ listening = FALSE
    /\ fatalCause = "none"
    /\ settings = [pgdata |-> TRUE, uploadTimeout |-> TRUE]
    /\ pc = [c \in Conns |-> "unaccepted"]
    /\ conn = [c \in Conns |-> [sent |-> <<>>, broken |-> FALSE, closes |-> 0, late |-> FALSE]]
    /\ frames = [c \in Conns |-> 0]
    /\ last = [c \in Conns |-> NoRequest]

\* Every process has just started (cache.New): empty memory, Updated = now,
\* and no cache file yet.
CInit ==
    /\ DIdle
    /\ XIdle
    /\ RIdle
    /\ PIdle
    /\ now = 0
    /\ file = NoFile
    /\ mem = [p \in Procs |-> << >>]
    /\ updated = [p \in Procs |-> 0]
    /\ held = [p \in Procs |-> [active |-> FALSE, content |-> << >>]]
    /\ flushed = [p \in Procs |-> FALSE]
    /\ ops = 0

\* The process is between cache.New and its call of Flush, which it makes once,
\* before it exits.
Running(p) == ~held[p].active /\ ~flushed[p]

Tick ==
    /\ now < MaxTime
    /\ now' = now + 1
    /\ UNCHANGED <<dvars, rvars, pvars, mvars, file, mem, updated, held, flushed, ops>>

\* One process calls Read(names...).
CRead(p) ==
    /\ Running(p)
    /\ \E names \in NameLists :
         mem' = [mem EXCEPT ![p] = cacheRead(mem[p], file, names, now).mem]
    /\ UNCHANGED <<dvars, rvars, pvars, mvars, now, file, updated, held, flushed, ops>>

\* One process calls ApplyExplicitCheckResult(checkResult, names...).
CApplyExplicit(p) ==
    /\ Running(p)
    /\ ops < MaxOps
    /\ \E names \in NameLists :
       \E checkResult \in [{names[i] : i \in DOMAIN names} -> BOOLEAN] :
         LET r == cacheApplyExplicit(mem[p], updated[p], checkResult, names, now) IN
         /\ mem' = [mem EXCEPT ![p] = r.mem]
         /\ file' = IF r.write THEN fileWrite(file, r.content) ELSE file
    /\ ops' = ops + 1
    /\ UNCHANGED <<dvars, rvars, pvars, mvars, now, updated, held, flushed>>

\* One process calls ApplyOperationResult(storage, alive, weight); the
\* commands that share the file report read operations.
CApplyOperation(p) ==
    /\ Running(p)
    /\ ops < MaxOps
    /\ \E n \in Names, alive \in BOOLEAN, weight \in {ReadWeight} :
         /\ StatusAt(mem[p], usedKeys[n]).Weight + weight <= MaxWeight
         /\ LET r == cacheApplyOperation(mem[p], updated[p], n, alive, weight, now) IN
            /\ mem' = [mem EXCEPT ![p] = r.mem]
            /\ file' = IF r.write THEN fileWrite(file, r.content) ELSE file
    /\ ops' = ops + 1
    /\ UNCHANGED <<dvars, rvars, pvars, mvars, now, updated, held, flushed>>

\* cache.Flush, first half: the file is read under the shared lock, the lock
\* is released when the file is closed, and memory and file are merged.
FlushRead(p) ==
    /\ Running(p)
    /\ held' = [held EXCEPT ![p] =
                  [active |-> TRUE,
                   content |-> mergeByRelevance(mem[p], fileRead(file).content)]]
    /\ UNCHANGED <<dvars, rvars, pvars, mvars, now, file, mem, updated, flushed, ops>>

\* cache.Flush, second half: the merged map is written under the exclusive lock.
FlushWrite(p) ==
    /\ held[p].active
    /\ file' = fileWrite(file, held[p].content)
    /\ held' = [held EXCEPT ![p] = [active |-> FALSE, content |-> << >>]]
    /\ flushed' = [flushed EXCEPT ![p] = TRUE]
    /\ UNCHANGED <<dvars, rvars, pvars, mvars, now, mem, updated, ops>>

CNext ==
    \/ Tick
    \/ \E p \in Procs :
         \/ CRead(p)
         \/ CApplyExplicit(p)
         \/ CApplyOperation(p)
         \/ FlushRead(p)
         \/ FlushWrite(p)

SpecCache == CInit /\ [][CNext]_vars

(***************************************************************************)
(* Routing through the cache (policy FirstAlive), one daemon process "A"   *)
(***************************************************************************)
\* The policies of the folder handles the daemon uses: WalPush routes with
\* FirstAlive, WalFetch reads with AllAlive.
Policies == {"FirstAlive", "AllAlive"}

\* The storages an alive map reports alive.
AliveNames(m) == {n \in DOMAIN m \cap Names : m[n]}

\* The first storage of a set in routing order: the primary, then the
\* failovers in declaration order.
FirstInOrder(S) ==
    StorageNames[CHOOSE i \in DOMAIN StorageNames :
                    /\ StorageNames[i] \in S
                    /\ \A j \in 1..(i - 1) : StorageNames[j] \notin S]

\* The daemon process has just started: no cache file, nothing in memory,
\* every storage reachable or not.
RInit ==
    /\ DIdle
    /\ XIdle
    /\ PIdle
    /\ now = 0
    /\ file = NoFile
    /\ mem = [p \in Procs |-> << >>]
    /\ updated = [p \in Procs |-> 0]
    /\ held = [p \in Procs |-> [active |-> FALSE, content |-> << >>]]
    /\ flushed = [p \in Procs |-> FALSE]
    /\ ops = 0
    /\ up \in [Names -> BOOLEAN]
    /\ wpc = [w \in Workers |-> "idle"]
    /\ wsel = [w \in Workers |-> ""]
    /\ wout = [w \in Workers |-> {}]
    /\ wreply = [w \in Workers |-> 0]
    /\ wpol \in [Workers -> Policies]

\* A storage goes down or comes back.
StorageFlips(n) ==
    /\ up' = [up EXCEPT ![n] = ~@]
    /\ UNCHANGED <<dvars, pvars, mvars, cvars, wpc, wsel, wout, wreply, wpol>>

\* Resolution, steps 1 and 2: Read for all the storages; under FirstAlive a
\* relevant alive storage is used at once, otherwise the outdated storages
\* are to be probed (under AllAlive whenever there are any).
Resolve(w) ==
    /\ wpc[w] = "idle"
    /\ LET r == cacheRead(mem["A"], file, StorageNames, now)
           known == AliveNames(r.relevant)
           toProbe == DOMAIN r.outdated \cap Names
       IN /\ mem' = [mem EXCEPT !["A"] = r.mem]
          /\ IF known # {} /\ (wpol[w] = "FirstAlive" \/ toProbe = {})
             THEN /\ wsel' = [wsel EXCEPT ![w] = FirstInOrder(known)]
                  /\ wpc' = [wpc EXCEPT ![w] = "resolved"]
                  /\ UNCHANGED wout
             ELSE IF toProbe = {}
             THEN /\ wpc' = [wpc EXCEPT ![w] = "noalive"]
                  /\ UNCHANGED <<wsel, wout>>
             ELSE /\ wpc' = [wpc EXCEPT ![w] = "probing"]
                  /\ wout' = [wout EXCEPT ![w] = toProbe]
                  /\ UNCHANGED wsel
    /\ UNCHANGED <<dvars, pvars, mvars, now, file, updated, held, flushed, ops, up, wpol, wreply>>

\* Resolution, steps 3 and 4: the probes have answered, their results are
\* applied to the cache, and the first storage now known alive is used.
ProbesDone(w) ==
    /\ wpc[w] = "probing"
    /\ LET checkResult == [n \in wout[w] |-> up[n]]
           r == cacheApplyExplicit(mem["A"], updated["A"], checkResult,
                                   StorageNames, now)
           known == AliveNames(r.alive)
       IN /\ mem' = [mem EXCEPT !["A"] = r.mem]
          /\ file' = IF r.write THEN fileWrite(file, r.content) ELSE file
          /\ IF known = {}
             THEN /\ wpc' = [wpc EXCEPT ![w] = "noalive"]
                  /\ UNCHANGED wsel
             ELSE /\ wpc' = [wpc EXCEPT ![w] = "resolved"]
                  /\ wsel' = [wsel EXCEPT ![w] = FirstInOrder(known)]
    /\ wout' = [wout EXCEPT ![w] = {}]
    /\ UNCHANGED <<dvars, pvars, mvars, now, updated, held, flushed, ops, up, wpol, wreply>>

\* The folder operation on the selected storage succeeds: the result is
\* applied to the cache and the handler replies Ok.
OperationSucceeds(w) ==
    /\ wpc[w] = "resolved"
    /\ up[wsel[w]]
    /\ LET r == cacheApplyOperation(mem["A"], updated["A"], wsel[w], TRUE,
                                    WriteWeight, now)
       IN /\ mem' = [mem EXCEPT !["A"] = r.mem]
          /\ file' = IF r.write THEN fileWrite(file, r.content) ELSE file
    /\ wpc' = [wpc EXCEPT ![w] = "done"]
    /\ wreply' = [wreply EXCEPT ![w] = OkType]
    /\ UNCHANGED <<dvars, pvars, mvars, now, updated, held, flushed, ops, up, wpol, wsel, wout>>

\* The folder operation fails, with a transport error (the storage is down)
\* or because its deadline elapsed: the result is applied to the cache, then
\* the error travels to the handler.
OperationFails(w, cause) ==
    /\ wpc[w] = "resolved"
    /\ cause = "transport" => ~up[wsel[w]]
    /\ LET r == cacheApplyOperation(mem["A"], updated["A"], wsel[w], FALSE,
                                    WriteWeight, now)
       IN /\ mem' = [mem EXCEPT !["A"] = r.mem]
          /\ file' = IF r.write THEN fileWrite(file, r.content) ELSE file
    /\ wpc' = [wpc EXCEPT ![w] = "opfailed"]
    /\ UNCHANGED <<dvars, pvars, mvars, now, updated, held, flushed, ops, up, wpol, wsel, wout, wreply>>

\* The handler has the error (of the operation, or NoAliveStorage) and the
\* worker writes the Error reply.
ReplyError(w) ==
    /\ wpc[w] \in {"opfailed", "noalive"}
    /\ wpc' = [wpc EXCEPT ![w] = "done"]
    /\ wreply' = [wreply EXCEPT ![w] = ErrorType]
    /\ UNCHANGED <<dvars, pvars, mvars, cvars, up, wpol, wsel, wout>>

RNext ==
    \/ Tick
    \/ \E n \in Names : StorageFlips(n)
    \/ \E w \in Workers :
         \/ Resolve(w)
         \/ ProbesDone(w)
         \/ OperationSucceeds(w)
         \/ OperationFails(w, "transport")
         \/ OperationFails(w, "deadline")
         \/ ReplyError(w)

SpecRoute == RInit /\ [][RNext]_vars

(***************************************************************************)
(* backup-list over several storages (policy UniteAll)                     *)
(***************************************************************************)
\* The storages of the backup-list tests, in the order AllAliveStorages
\* returns them.
ListStorages == <<"storage_1", "storage_2">>

\* The backups a storage may hold: base_111, base_222 and base_333, each
\* as <name>_backup_stop_sentinel.json.
Backups == {111, 222, 333}

\* The variables of a function specification's caller that it does not use.
QuietInit ==
    /\ DIdle
    /\ XIdle
    /\ CIdle
    /\ RIdle

\* Folder.ListFolder of one storage: its objects in ascending order.
RECURSIVE ListFolder(_)
ListFolder(content) ==
    IF content = {} THEN << >>
    ELSE LET o == CHOOSE x \in content : \A y \in content : x <= y
         IN <<o>> \o ListFolder(content \ {o})

\* The rows of one storage's listing, each tagged with the storage's name.
Tagged(objects, name) ==
    [i \in DOMAIN objects |-> [backup_name |-> objects[i], storage_name |-> name]]

\* Mutant: a backup that an earlier storage listed is not listed again.
RECURSIVE UniteAllList_FirstOnly(_, _, _)
UniteAllList_FirstOnly(contents, alive, i) ==
    IF i > Len(ListStorages) THEN << >>
    ELSE LET n == ListStorages[i]
             seen == UNION {contents[ListStorages[j]] :
                              j \in {k \in 1..(i - 1) : ListStorages[k] \in alive}}
         IN (IF n \in alive
             THEN Tagged(ListFolder(contents[n] \ seen), n)
             ELSE << >>) \o UniteAllList_FirstOnly(contents, alive, i + 1)

\* ListFolder of a multi-storage folder under UniteAll, from storage i on:
\* the listings of the used (alive) storages one after another.
RECURSIVE UniteAllList(_, _, _)
UniteAllList(contents, alive, i) ==
    IF i > Len(ListStorages) THEN << >>
    ELSE LET n == ListStorages[i]
         IN (IF n \in alive THEN Tagged(ListFolder(contents[n]), n) ELSE << >>)
              \o UniteAllList(contents, alive, i + 1)

\* The storages hold any backups, and at least one storage is alive.
LInit ==
    /\ QuietInit
    /\ pin \in [contents : [{ListStorages[i] : i \in DOMAIN ListStorages} -> SUBSET Backups],
                alive : (SUBSET {ListStorages[i] : i \in DOMAIN ListStorages}) \ {{}}]
    /\ pout = [done |-> FALSE, rows |-> << >>]

\* backup-list: SetPolicies(UniteAllStorages), UseAllAliveStorages, and the
\* listing of the backups folder.
ListBackups ==
    /\ ~pout.done
    /\ pout' = [done |-> TRUE, rows |-> UniteAllList(pin.contents, pin.alive, 1)]
    /\ UNCHANGED <<dvars, cvars, rvars, pin, mvars>>

LNext == ListBackups

SpecList == LInit /\ [][LNext]_vars

(***************************************************************************)
(* mergeByRelevance as a function of any three status maps                 *)
(***************************************************************************)
\* The maps a process or the file may hold: any fact of the primary, and of
\* the failover no fact or one fixed fact.
MergeMaps ==
    LET facts == [Alive : BOOLEAN, Checked : {0, 1}, Weight : {0, ReadWeight}]
        prim == {<< >>} \cup {Put(<< >>, usedKeys["default"], st) : st \in facts}
        fail == {<< >>, Put(<< >>, usedKeys["fo1"],
                            [Alive |-> TRUE, Checked |-> 1, Weight |-> 0])}
    IN {mergeByRelevance(a, b) : a \in prim, b \in fail}

MInit ==
    /\ QuietInit
    /\ pin \in [A : MergeMaps, B : MergeMaps, C : MergeMaps]
    /\ pout = [done |-> FALSE]

\* The three maps are merged in both orders and in both groupings.
Merge ==
    /\ ~pout.done
    /\ pout' = [done |-> TRUE,
                ab |-> mergeByRelevance(pin.A, pin.B),
                ba |-> mergeByRelevance(pin.B, pin.A),
                a_bc |-> mergeByRelevance(pin.A, mergeByRelevance(pin.B, pin.C)),
                ab_c |-> mergeByRelevance(mergeByRelevance(pin.A, pin.B), pin.C)]
    /\ UNCHANGED <<dvars, cvars, rvars, pin, mvars>>

MNext == Merge

SpecMerge == MInit /\ [][MNext]_vars

(***************************************************************************)
(* SharedFile.write followed by SharedFile.read                            *)
(***************************************************************************)
\* The configured endpoint keys: the primary, a failover, and a failover whose
\* name holds a '#'.
TripKeys ==
    {usedKeys["default"], usedKeys["fo1"], [Name |-> "fo#2", Hash |-> "cfg"]}

\* The facts a key may carry; a fact never checked carries the zero time.
TripFacts ==
    {ZeroStatus,
     [Alive |-> TRUE, Checked |-> 0, Weight |-> 0],
     [Alive |-> FALSE, Checked |-> 1, Weight |-> ReadWeight],
     [Alive |-> TRUE, Checked |-> 1, Weight |-> WriteWeight]}

\* Every status map over some of the configured keys.
TripMaps == UNION {[ks -> TripFacts] : ks \in SUBSET TripKeys}

\* The file before the write: absent, empty, or left by an earlier write of
\* another map.
TInit ==
    /\ DIdle /\ RIdle
    /\ XIdle
    /\ now = 0
    /\ mem = [p \in Procs |-> << >>]
    /\ updated = [p \in Procs |-> 0]
    /\ held = [p \in Procs |-> [active |-> FALSE, content |-> << >>]]
    /\ flushed = [p \in Procs |-> FALSE]
    /\ ops = 0
    /\ file \in {NoFile}
                \cup {fileWrite(NoFile, m) :
                        m \in {<< >>, [k \in TripKeys |-> ZeroStatus]}}
    /\ pin \in [m : TripMaps]
    /\ pout = [done |-> FALSE]

\* sf.write(m) followed by sf.read().
WriteThenRead ==
    /\ ~pout.done
    /\ file' = fileWrite(file, pin.m)
    /\ pout' = [done |-> TRUE, read |-> fileRead(file')]
    /\ UNCHANGED <<dvars, rvars, now, mem, updated, held, flushed, ops, pin, mvars>>

TNext == WriteThenRead

SpecTrip == TInit /\ [][TNext]_vars

(***************************************************************************)
(* One process and a cache file that may fail                              *)
(***************************************************************************)
\* What a failed SharedFile.write leaves: the file as it was (it could not be
\* opened or locked), or a file that no longer parses (it was created or
\* truncated and the text was not written).
FailedWrite(f) == {f, Failing(f)}

\* The process holds any status map and the present is any time after the
\* facts it holds; the file is absent or holds any status map.
FInit ==
    /\ DIdle /\ RIdle
    /\ XIdle
    /\ now \in 1..MaxTime
    /\ mem \in {[p \in Procs |-> IF p = "A" THEN m ELSE << >>] : m \in MergeMaps}
    /\ updated = [p \in Procs |-> 0]
    /\ held = [p \in Procs |-> [active |-> FALSE, content |-> << >>]]
    /\ flushed = [p \in Procs |-> FALSE]
    /\ ops = 0
    /\ file \in {NoFile} \cup {fileWrite(NoFile, m) : m \in MergeMaps}
    /\ pin = << >>
    /\ pout = [op |-> "none", fault |-> FALSE, ret |-> << >>, asAbsent |-> TRUE]

\* Read(names...); the file read, if there is one, may fail.  The map the
\* process had before the call and the names it asked for are noted.
FRead ==
    /\ pout.op = "none"
    /\ \E names \in NameLists, fault \in BOOLEAN :
        LET seen == IF fault /\ file.exists THEN Failing(file) ELSE file
            r == cacheRead(mem["A"], seen, names, now)
            a == cacheRead(mem["A"], NoFile, names, now)
        IN /\ mem' = [mem EXCEPT !["A"] = r.mem]
           /\ pout' = [op |-> "Read",
                       had |-> mem["A"],
                       names |-> names,
                       fault |-> r.fileRead /\ seen.exists /\ ~seen.json,
                       ret |-> <<r.relevant, r.outdated>>,
                       asAbsent |-> /\ r.mem = a.mem
                                    /\ r.relevant = a.relevant
                                    /\ r.outdated = a.outdated]
    /\ UNCHANGED <<dvars, rvars, pin, mvars, now, file, updated, held, flushed, ops>>

\* ApplyExplicitCheckResult(checkResult, names...); the file write, if there
\* is one, may fail.  The call compared with is the one that writes no file.
FApplyExplicit ==
    /\ pout.op = "none"
    /\ \E names \in NameLists, fault \in BOOLEAN :
       \E checkResult \in [{names[i] : i \in DOMAIN names} -> BOOLEAN] :
         LET r == cacheApplyExplicit(mem["A"], updated["A"], checkResult, names, now)
             a == cacheApplyExplicit(mem["A"], now, checkResult, names, now)
         IN /\ mem' = [mem EXCEPT !["A"] = r.mem]
            /\ IF r.write
               THEN IF fault THEN file' \in FailedWrite(file)
                             ELSE file' = fileWrite(file, r.content)
               ELSE file' = file
            /\ pout' = [op |-> "ApplyExplicitCheckResult",
                        fault |-> r.write /\ fault,
                        ret |-> r.alive,
                        asAbsent |-> r.mem = a.mem /\ r.alive = a.alive]
    /\ UNCHANGED <<dvars, rvars, pin, mvars, now, updated, held, flushed, ops>>

\* ApplyOperationResult(storage, alive, weight); the file write, if there is
\* one, may fail.  The call compared with is the one that writes no file.
FApplyOperation ==
    /\ pout.op = "none"
    /\ \E n \in Names, alive \in BOOLEAN, weight \in {ReadWeight}, fault \in BOOLEAN :
         LET r == cacheApplyOperation(mem["A"], updated["A"], n, alive, weight, now)
             a == cacheApplyOperation(mem["A"], now, n, alive, weight, now)
         IN /\ mem' = [mem EXCEPT !["A"] = r.mem]
            /\ IF r.write
               THEN IF fault THEN file' \in FailedWrite(file)
                             ELSE file' = fileWrite(file, r.content)
               ELSE file' = file
            /\ pout' = [op |-> "ApplyOperationResult",
                        fault |-> r.write /\ fault,
                        ret |-> << >>,
                        asAbsent |-> r.mem = a.mem]
    /\ UNCHANGED <<dvars, rvars, pin, mvars, now, updated, held, flushed, ops>>

\* Flush; the file read and the file write may fail, each on its own.
FFlush ==
    /\ pout.op = "none"
    /\ \E rfault \in BOOLEAN, wfault \in BOOLEAN :
        LET seen == IF rfault /\ file.exists THEN Failing(file) ELSE file
            merged == mergeByRelevance(mem["A"], fileRead(seen).content)
        IN /\ IF wfault THEN file' \in FailedWrite(file)
                        ELSE file' = fileWrite(file, merged)
           /\ pout' = [op |-> "Flush",
                       fault |-> wfault \/ (seen.exists /\ ~seen.json),
                       ret |-> << >>,
                       asAbsent |-> (seen.exists /\ ~seen.json) =>
                                        merged = mergeByRelevance(mem["A"], fileRead(NoFile).content)]
    /\ UNCHANGED <<dvars, rvars, pin, mvars, now, mem, updated, held, flushed, ops>>

FNext ==
    \/ FRead
    \/ FApplyExplicit
    \/ FApplyOperation
    \/ FFlush

SpecFault == FInit /\ [][FNext]_vars

(***************************************************************************)
(* One store and the times at which its apply calls write the file         *)
(***************************************************************************)
\* The store has just been created (NewSharedFile: Updated = now) and has
\* written nothing.
WInit ==
    /\ DIdle /\ RIdle
    /\ XIdle
    /\ now = 0
    /\ file = NoFile
    /\ mem = [p \in Procs |-> << >>]
    /\ updated = [p \in Procs |-> 0]
    /\ held = [p \in Procs |-> [active |-> FALSE, content |-> << >>]]
    /\ flushed = [p \in Procs |-> FALSE]
    /\ ops = 0
    /\ pin = << >>
    /\ pout = [writes |-> << >>]

\* ApplyExplicitCheckResult(checkResult, names...); a write of the file is
\* noted with its time.
WApplyExplicit ==
    /\ ops < MaxOps
    /\ \E names \in NameLists :
       \E checkResult \in [{names[i] : i \in DOMAIN names} -> BOOLEAN] :
         LET r == cacheApplyExplicit(mem["A"], updated["A"], checkResult, names, now) IN
         /\ mem' = [mem EXCEPT !["A"] = r.mem]
         /\ file' = IF r.write THEN fileWrite(file, r.content) ELSE file
         /\ pout' = [writes |-> IF r.write THEN Append(pout.writes, now) ELSE pout.writes]
    /\ ops' = ops + 1
    /\ UNCHANGED <<dvars, rvars, pin, mvars, now, updated, held, flushed>>

\* ApplyOperationResult(storage, alive, weight); a write of the file is noted
\* with its time.
WApplyOperation ==
    /\ ops < MaxOps
    /\ \E n \in Names, alive \in BOOLEAN, weight \in {ReadWeight, WriteWeight} :
         /\ StatusAt(mem["A"], usedKeys[n]).Weight + weight <= MaxWeight
         /\ LET r == cacheApplyOperation(mem["A"], updated["A"], n, alive, weight, now) IN
            /\ mem' = [mem EXCEPT !["A"] = r.mem]
            /\ file' = IF r.write THEN fileWrite(file, r.content) ELSE file
            /\ pout' = [writes |-> IF r.write THEN Append(pout.writes, now) ELSE pout.writes]
    /\ ops' = ops + 1
    /\ UNCHANGED <<dvars, rvars, pin, mvars, now, updated, held, flushed>>

WNext ==
    \/ Tick
    \/ WApplyExplicit
    \/ WApplyOperation

SpecRewrite == WInit /\ [][WNext]_vars

(***************************************************************************)
(* Two workers of one process, the mutex of its shared memory, and the     *)
(* steps of each cache call                                                *)
(***************************************************************************)
\* The cache calls, each made with the mutex held from its first statement
\* to its return.
CacheCalls == {"Read", "ApplyExplicitCheckResult", "ApplyOperationResult", "Flush"}

\* What a call computes from the in-memory map m and the file f: the new
\* map, the values it returns, and the content it writes, if it writes.
CallResult(c, m, f) ==
    CASE c.phase = "Read" ->
           cacheRead(m, f, StorageNames, now)
      [] c.phase = "ApplyExplicitCheckResult" ->
           cacheApplyExplicit(m, updated["A"], [n \in c.probe |-> up[n]],
                              StorageNames, now)
      [] c.phase = "ApplyOperationResult" ->
           cacheApplyOperation(m, updated["A"], c.sel, c.ok, ReadWeight, now)
      [] c.phase = "Flush" ->
           [mem |-> m, write |-> TRUE,
            content |-> mergeByRelevance(m, fileRead(f).content)]

\* The file after a call that computed r.
FileAfter(c, r, f) ==
    IF c.phase # "Read" /\ r.write THEN fileWrite(f, r.content) ELSE f

\* Mutant: the mutex is taken whoever holds it.
XLock_NoWait(w) ==
    /\ call[w].step = "want"
    /\ mutex' = w
    /\ call' = [call EXCEPT ![w].step = "locked",
                            ![w].pre = [mem |-> mem["A"], file |-> file]]
    /\ UNCHANGED <<dvars, cvars, rvars, pvars>>

\* Mutant: a worker that goes on to probe keeps the mutex.
XUnlock_KeepsForProbes(w) ==
    /\ call[w].step = "stored"
    /\ LET c == call[w]
           known == IF c.phase = "Read" THEN AliveNames(c.local.relevant)
                    ELSE IF c.phase = "ApplyExplicitCheckResult"
                    THEN AliveNames(c.local.alive) ELSE {}
           toProbe == IF c.phase = "Read" THEN DOMAIN c.local.outdated \cap Names ELSE {}
           idle == [c EXCEPT !.step = "none", !.pre = << >>, !.local = << >>]
       IN /\ mutex' = IF c.phase = "Read" /\ known = {} /\ toProbe # {}
                      THEN mutex ELSE "none"
          /\ call' = [call EXCEPT ![w] =
               CASE c.phase = "ApplyOperationResult" ->
                      [idle EXCEPT !.phase = "Flush", !.step = "want"]
                 [] c.phase = "Flush" -> [idle EXCEPT !.phase = "done"]
                 [] known # {} ->
                      [idle EXCEPT !.phase = "operating", !.sel = FirstInOrder(known)]
                 [] toProbe # {} ->
                      [idle EXCEPT !.phase = "probing", !.probe = toProbe]
                 [] OTHER -> [idle EXCEPT !.phase = "done"]]
    /\ UNCHANGED <<dvars, cvars, rvars, pvars>>

\* Both workers are about to resolve a storage; the process holds nothing or
\* a fact about the primary, no cache file is there, every storage is
\* reachable or not.
XInit ==
    /\ DIdle
    /\ PIdle
    /\ now \in 0..MaxTime
    /\ file = NoFile
    /\ mem \in {[p \in Procs |-> IF p = "A" THEN m ELSE << >>] :
                  m \in {<< >>} \cup
                        {Put(<< >>, usedKeys["default"],
                             [Alive |-> a, Checked |-> 0, Weight |-> 0]) : a \in BOOLEAN}}
    /\ updated = [p \in Procs |-> 0]
    /\ held = [p \in Procs |-> [active |-> FALSE, content |-> << >>]]
    /\ flushed = [p \in Procs |-> FALSE]
    /\ ops = 0
    /\ up \in [Names -> BOOLEAN]
    /\ wpc = [w \in Workers |-> "idle"]
    /\ wsel = [w \in Workers |-> ""]
    /\ wout = [w \in Workers |-> {}]
    /\ wreply = [w \in Workers |-> 0]
    /\ wpol = [w \in Workers |-> "FirstAlive"]
    /\ mutex = "none"
    /\ call = [w \in Workers |-> [NoCall EXCEPT !.phase = "Read", !.step = "want"]]

\* c.shMem.Lock(): the first statement of every cache call.
XLock(w) ==
    /\ call[w].step = "want"
    /\ mutex = "none"
    /\ mutex' = w
    /\ call' = [call EXCEPT ![w].step = "locked",
                            ![w].pre = [mem |-> mem["A"], file |-> file]]
    /\ UNCHANGED <<dvars, cvars, rvars, pvars>>

\* The call reads the in-memory map (and the file, if it reads the file) and
\* computes its result.
XLoad(w) ==
    /\ call[w].step = "locked"
    /\ call' = [call EXCEPT ![w].step = "loaded",
                            ![w].local = CallResult(call[w], mem["A"], file)]
    /\ UNCHANGED <<dvars, cvars, rvars, pvars, mutex>>

\* The call assigns the in-memory map and writes the file, if it writes it.
XStore(w) ==
    /\ call[w].step = "loaded"
    /\ mem' = [mem EXCEPT !["A"] = call[w].local.mem]
    /\ file' = FileAfter(call[w], call[w].local, file)
    /\ call' = [call EXCEPT ![w].step = "stored"]
    /\ UNCHANGED <<dvars, rvars, pvars, mutex, now, updated, held, flushed, ops>>

\* The deferred c.shMem.Unlock() as the call returns; the worker goes on by
\* what the call returned: after Read to the operation on the first storage
\* known alive, or to the probes of the outdated storages; after
\* ApplyExplicitCheckResult to the operation; after ApplyOperationResult to
\* Flush.
XUnlock(w) ==
    /\ call[w].step = "stored"
    /\ LET c == call[w]
           known == IF c.phase = "Read" THEN AliveNames(c.local.relevant)
                    ELSE IF c.phase = "ApplyExplicitCheckResult"
                    THEN AliveNames(c.local.alive) ELSE {}
           toProbe == IF c.phase = "Read" THEN DOMAIN c.local.outdated \cap Names ELSE {}
           idle == [c EXCEPT !.step = "none", !.pre = << >>, !.local = << >>]
       IN /\ mutex' = "none"
          /\ call' = [call EXCEPT ![w] =
               CASE c.phase = "ApplyOperationResult" ->
                      [idle EXCEPT !.phase = "Flush", !.step = "want"]
                 [] c.phase = "Flush" -> [idle EXCEPT !.phase = "done"]
                 [] known # {} ->
                      [idle EXCEPT !.phase = "operating", !.sel = FirstInOrder(known)]
                 [] toProbe # {} ->
                      [idle EXCEPT !.phase = "probing", !.probe = toProbe]
                 [] OTHER -> [idle EXCEPT !.phase = "done"]]
    /\ UNCHANGED <<dvars, cvars, rvars, pvars>>

\* The probes of the outdated storages have answered (a probe of a hanging
\* storage never does); the worker is about to record the results.
XProbed(w) ==
    /\ call[w].phase = "probing"
    /\ call' = [call EXCEPT ![w].phase = "ApplyExplicitCheckResult",
                            ![w].step = "want"]
    /\ UNCHANGED <<dvars, cvars, rvars, pvars, mutex>>

\* The object-store operation on the selected storage has ended: well if the
\* storage is up, badly if it is down or the deadline elapsed; the worker is
\* about to record the result.
XOperated(w) ==
    /\ call[w].phase = "operating"
    /\ \E ok \in {up[call[w].sel], FALSE} :
         call' = [call EXCEPT ![w].phase = "ApplyOperationResult",
                              ![w].step = "want",
                              ![w].ok = ok]
    /\ UNCHANGED <<dvars, cvars, rvars, pvars, mutex>>

XNext ==
    \E w \in Workers :
        \/ XLock(w)
        \/ XLoad(w)
        \/ XStore(w)
        \/ XUnlock(w)
        \/ XProbed(w)
        \/ XOperated(w)

SpecMutex == XInit /\ [][XNext]_vars

(***************************************************************************)
(* SharedFile.write on the bytes of the file                               *)
(***************************************************************************)
\* The keys in the order of their strings, in which json.Marshal writes the
\* members of a map: "#", "default#cfg", "fo#2#cfg", "fo1#cfg".
SortedKeys ==
    <<ZeroKey, usedKeys["default"], [Name |-> "fo#2", Hash |-> "cfg"], usedKeys["fo1"]>>

\* json.Marshal of a status map, from the i-th key on: one piece of text per
\* member name and one per member value.
RECURSIVE Members(_, _)
Members(m, i) ==
    IF i > Len(SortedKeys) THEN << >>
    ELSE (IF SortedKeys[i] \in DOMAIN m
          THEN <<named[SortedKeys[i]], m[SortedKeys[i]]>>
          ELSE << >>) \o Members(m, i + 1)

Marshal(m) == <<"{">> \o Members(m, 1) \o <<"}">>

\* Mutant: the file keeps its length.
Truncate_Keeps(bytes, n) == bytes

\* file.Truncate(n): the file is cut to n bytes, or filled up to n with zeros.
Truncate(bytes, n) ==
    [i \in 1..n |-> IF i <= Len(bytes) THEN bytes[i] ELSE "NUL"]

\* file.Write(b) on a file just opened: b replaces the bytes from offset 0,
\* the bytes after it stay.
WriteAtStart(bytes, b) ==
    [i \in 1..(IF Len(b) > Len(bytes) THEN Len(b) ELSE Len(bytes)) |->
        IF i <= Len(b) THEN b[i] ELSE bytes[i]]

\* SharedFile.write on the bytes of the file: the file is opened without
\* O_TRUNC (created empty if it is not there), truncated to the length of the
\* new text, and the text is written.
writeBytes(old, content) ==
    LET text == Marshal(content) IN
    WriteAtStart(Truncate(old, Len(text)), text)

\* The file is not there, or holds the text of any status map; any status
\* map is written.
BInit ==
    /\ QuietInit
    /\ pin \in [old : {<< >>} \cup {Marshal(m) : m \in MergeMaps}, new : MergeMaps]
    /\ pout = [done |-> FALSE]

WriteBytes ==
    /\ ~pout.done
    /\ pout' = [done |-> TRUE, bytes |-> writeBytes(pin.old, pin.new)]
    /\ UNCHANGED <<dvars, cvars, rvars, pin, mvars>>

BNext == WriteBytes

SpecBytes == BInit /\ [][BNext]_vars

(***************************************************************************)
(* Recursive folder listing (package storage, folder.go)                   *)
(***************************************************************************)
\* A path is the sequence of its components; a folder's path (GetPath) ends
\* with '/', an object's path does not.  The folders a tree may have, in the
\* order ListFolder reports sub-folders, and the names its objects may have,
\* in the order ListFolder reports objects.
DirSeq == << << >>, <<"a">>, <<"b">>, <<"a", "b">> >>
ObjSeq == << <<"a">>, <<"x">> >>

Dirs == {DirSeq[i] : i \in DOMAIN DirSeq}
ObjNames == {ObjSeq[i] : i \in DOMAIN ObjSeq}

\* strings.HasPrefix on paths that end at a component boundary.
HasPrefix(s, p) == Len(p) <= Len(s) /\ SubSeq(s, 1, Len(p)) = p

\* strings.TrimPrefix: s without the leading p, or s itself.
TrimPrefix(s, p) == IF HasPrefix(s, p) THEN SubSeq(s, Len(p) + 1, Len(s)) ELSE s

\* The finite folder trees: the root is there, a folder is there only with
\* its parent, and only a folder that is there holds objects.
Trees ==
    {t \in [dirs : SUBSET Dirs, objs : [Dirs -> SUBSET ObjNames]] :
        /\ << >> \in t.dirs
        /\ \A d \in t.dirs : d # << >> => SubSeq(d, 1, Len(d) - 1) \in t.dirs
        /\ \A d \in Dirs \ t.dirs : t.objs[d] = {}}

\* Folder.ListFolder of the folder at path d: its objects by name and its
\* sub-folders; a folder that does not exist lists as empty.
FolderListing(t, d) ==
    LET IsObject(n) == d \in t.dirs /\ n \in t.objs[d]
        IsSubFolder(f) == f \in t.dirs /\ Len(f) = Len(d) + 1 /\ HasPrefix(f, d)
    IN [objects |-> SelectSeq(ObjSeq, IsObject),
        subFolders |-> SelectSeq(DirSeq, IsSubFolder)]

\* Mutant: the objects keep the names their own folder gave them.
prependPaths_Bare(objects, folderPrefix) == objects

\* prependPaths: path.Join(folderPrefix, name) for every object.
prependPaths(objects, folderPrefix) ==
    [i \in DOMAIN objects |-> folderPrefix \o objects[i]]

\* The prefixes a caller may pass: a path, with or without a final '/'.
Prefixes ==
    [path : Dirs \cup {<<"x">>, <<"a", "x">>, <<"a", "a">>}, slash : BOOLEAN]

\* Mutant: a prefix is never looked up as an object.
checkFile_Never(prefix) == FALSE

\* checkFile: the prefix is not empty and does not end in '/'.
checkFile(prefix) == prefix.path # << >> /\ ~prefix.slash

\* path.Split of a trimmed prefix: the directory part and the last component.
PathSplit(p) ==
    IF p = << >> THEN [dirName |-> << >>, fileName |-> << >>]
    ELSE [dirName |-> SubSeq(p, 1, Len(p) - 1), fileName |-> <<p[Len(p)]>>]

\* Any tree; ListFolderRecursively on any of its folders, or
\* ListFolderRecursivelyWithPrefix on its root with any prefix.
TreeInit ==
    /\ QuietInit
    /\ pin \in {i \in [tree : Trees, call : {"all", "prefix"}, entry : Dirs, prefix : Prefixes] :
                  /\ i.entry \in i.tree.dirs
                  /\ i.call = "all" => i.prefix = [path |-> << >>, slash |-> FALSE]
                  /\ i.call = "prefix" => i.entry = << >>}
    /\ pout = [phase |-> "start", root |-> << >>, queue |-> << >>,
               objects |-> << >>, listed |-> {}]

\* ListFolderRecursivelyWithFilter, before the loop: the queue holds the folder.
StartAll ==
    /\ pout.phase = "start"
    /\ pin.call = "all"
    /\ pout' = [pout EXCEPT !.phase = "walk", !.root = pin.entry, !.queue = <<pin.entry>>]
    /\ UNCHANGED <<dvars, cvars, rvars, pin, mvars>>

\* ListFolderRecursivelyWithPrefix up to its call of ListFolderRecursively:
\* a prefix without a final '/' is looked up as an object of its parent.
StartPrefix ==
    /\ pout.phase = "start"
    /\ pin.call = "prefix"
    /\ LET prefix == pin.prefix.path
           split == PathSplit(prefix)
           parent == FolderListing(pin.tree, pin.entry \o split.dirName)
           found == checkFile(pin.prefix) /\ \E i \in DOMAIN parent.objects :
                                     parent.objects[i] = split.fileName
       IN pout' = IF found
                  THEN [pout EXCEPT !.phase = "done",
                                    !.objects = prependPaths(<<split.fileName>>, split.dirName),
                                    !.listed = {pin.entry \o split.dirName}]
                  ELSE [pout EXCEPT !.phase = "walk",
                                    !.root = pin.entry \o prefix,
                                    !.queue = <<pin.entry \o prefix>>,
                                    !.listed = IF checkFile(pin.prefix)
                                               THEN {pin.entry \o split.dirName} ELSE {}]
    /\ UNCHANGED <<dvars, cvars, rvars, pin, mvars>>

\* One round of the loop: the folder at the head of the queue is listed, its
\* objects are appended under its path relative to the entry folder, and its
\* sub-folders join the queue.
Walk ==
    /\ pout.phase = "walk"
    /\ pout.queue # << >>
    /\ LET subFolder == Head(pout.queue)
           l == FolderListing(pin.tree, subFolder)
           folderPrefix == TrimPrefix(subFolder, pout.root)
       IN pout' = [pout EXCEPT
                     !.objects = @ \o prependPaths(l.objects, folderPrefix),
                     !.queue = Tail(@) \o l.subFolders,
                     !.listed = @ \cup {subFolder}]
    /\ UNCHANGED <<dvars, cvars, rvars, pin, mvars>>

\* The queue is empty: ListFolderRecursively returns, and
\* ListFolderRecursivelyWithPrefix prepends the prefix to what it returned.
Return ==
    /\ pout.phase = "walk"
    /\ pout.queue = << >>
    /\ pout' = [pout EXCEPT
                  !.phase = "done",
                  !.objects = IF pin.call = "prefix"
                              THEN prependPaths(@, pin.prefix.path) ELSE @]
    /\ UNCHANGED <<dvars, cvars, rvars, pin, mvars>>

TreeNext ==
    \/ StartAll
    \/ StartPrefix
    \/ Walk
    \/ Return

\* The call is a sequential loop: it goes on while it has a step to take.
SpecTree == TreeInit /\ [][TreeNext]_vars /\ WF_vars(TreeNext)

(***************************************************************************)
(* SocketMessageReader.Next on one frame                                   *)
(***************************************************************************)
\* The number of values of a uint16 (messageLength).
Uint16 == 65536

\* The most body bytes the peer sends after a header before it ends the stream.
MaxStream == 4

\* The length fields a header may carry: the small ones and the largest ones.
Lengths == 0..(MaxStream + 4) \cup (Uint16 - 3)..(Uint16 - 1)

\* make([]byte, messageLength-3): the subtraction is done in uint16.
bodySize(length) == (length - 3) % Uint16

\* io.ReadFull(r.c, buf) on a stream that holds avail more bytes and then
\* ends: the bytes read and whether the read failed.
ReadFull(size, avail) ==
    IF avail >= size THEN [n |-> size, err |-> FALSE] ELSE [n |-> avail, err |-> TRUE]

\* A header with any length field has been read; the stream holds any number
\* of further bytes.
FrameInit ==
    /\ QuietInit
    /\ pin \in [length : Lengths, avail : 0..MaxStream]
    /\ pout = [done |-> FALSE, asked |-> 0, n |-> 0, err |-> FALSE]

\* SocketMessageReader.Next after the header: the body buffer is made and
\* io.ReadFull is called on it, whatever the length field is.
ReaderNext ==
    /\ ~pout.done
    /\ LET r == ReadFull(bodySize(pin.length), pin.avail)
       IN pout' = [done |-> TRUE, asked |-> bodySize(pin.length), n |-> r.n, err |-> r.err]
    /\ UNCHANGED <<dvars, cvars, rvars, pin, mvars>>

FrameNext == ReaderNext

SpecFrame == FrameInit /\ [][FrameNext]_vars

(***************************************************************************)
(* One cache call with any arguments, with or without a shared file        *)
(***************************************************************************)
\* The storage names a caller may pass: configured ones and one that is not.
AnyNames == Names \cup {"nosuch"}
AnyNameLists == NameLists \cup {<<"nosuch">>, <<"default", "nosuch">>}

\* correspondingKeys returns the error "unknown storage": some name is not a
\* key of usedKeys.
unknownStorage(names) == \E i \in DOMAIN names : names[i] \notin DOMAIN usedKeys

\* checkResultByKeys: the results of the configured names, by key.
checkResultByKeys(checkResult) ==
    [k \in {usedKeys[n] : n \in DOMAIN checkResult \cap Names} |-> checkResult[k.Name]]

\* A status map with a fact of a storage of another configuration.
ForeignMap ==
    Put(<< >>, [Name |-> "fo#2", Hash |-> "cfg"], [Alive |-> TRUE, Checked |-> 1, Weight |-> 0])

\* cache.New with or without a shared file; the process holds any status map
\* of its configured storages, and the file is absent or holds any status map.
CallInit ==
    /\ DIdle /\ RIdle
    /\ XIdle
    /\ now \in 1..MaxTime
    /\ mem \in {[p \in Procs |-> IF p = "A" THEN m ELSE << >>] : m \in MergeMaps}
    /\ updated = [p \in Procs |-> 0]
    /\ held = [p \in Procs |-> [active |-> FALSE, content |-> << >>]]
    /\ flushed = [p \in Procs |-> FALSE]
    /\ ops = 0
    /\ file \in {NoFile, fileWrite(NoFile, ForeignMap)} \cup {fileWrite(NoFile, m) : m \in MergeMaps}
    /\ pin \in [shFileUsed : BOOLEAN]
    /\ pout = [op |-> "none", names |-> << >>, checkResult |-> << >>, storage |-> "",
               err |-> "nil", panic |-> FALSE, touched |-> FALSE,
               had |-> << >>, fileWas |-> NoFile]

\* Read(names...): the unknown name is an error before anything else; the
\* file is read through c.shFile whether or not there is one, and the read
\* through a nil *SharedFile panics at sf.Path.
CallRead ==
    /\ pout.op = "none"
    /\ \E names \in AnyNameLists :
         LET known == ~unknownStorage(names)
             fast == known /\ isRelevant(mem["A"], correspondingKeys(names), now)
             reads == known /\ ~fast
         IN /\ mem' = IF reads /\ pin.shFileUsed
                      THEN [mem EXCEPT !["A"] = cacheRead(mem["A"], file, names, now).mem]
                      ELSE mem
            /\ pout' = [pout EXCEPT
                          !.op = "Read", !.names = names,
                          !.err = IF known THEN "nil" ELSE "unknown storage",
                          !.panic = reads /\ ~pin.shFileUsed,
                          !.touched = reads /\ pin.shFileUsed,
                          !.had = mem["A"], !.fileWas = file]
    /\ UNCHANGED <<dvars, rvars, pin, mvars, now, file, updated, held, flushed, ops>>

\* ApplyExplicitCheckResult(checkResult, names...): the results are applied
\* to the memory first, then the names are looked up.
CallApplyExplicit ==
    /\ pout.op = "none"
    /\ \E names \in AnyNameLists : \E checked \in (SUBSET AnyNames) \ {{}} :
       \E checkResult \in [checked -> BOOLEAN] :
         LET known == ~unknownStorage(names)
             m2 == applyExplicitCheckResult(mem["A"], checkResultByKeys(checkResult), now)
             writes == known /\ pin.shFileUsed /\ ~shFileRelevant(updated["A"], now)
         IN /\ mem' = [mem EXCEPT !["A"] = m2]
            /\ file' = IF writes THEN fileWrite(file, m2) ELSE file
            /\ pout' = [pout EXCEPT
                          !.op = "ApplyExplicitCheckResult", !.names = names,
                          !.checkResult = checkResult,
                          !.err = IF known THEN "nil" ELSE "unknown storage",
                          !.touched = writes,
                          !.had = mem["A"], !.fileWas = file]
    /\ UNCHANGED <<dvars, rvars, pin, mvars, now, updated, held, flushed, ops>>

\* ApplyOperationResult(storage, alive, weight) with any storage name.
CallApplyOperation ==
    /\ pout.op = "none"
    /\ \E n \in AnyNames, alive \in BOOLEAN :
         LET r == cacheApplyOperation(mem["A"], updated["A"], n, alive, ReadWeight, now)
             writes == pin.shFileUsed /\ r.write
         IN /\ mem' = [mem EXCEPT !["A"] = r.mem]
            /\ file' = IF writes THEN fileWrite(file, r.content) ELSE file
            /\ pout' = [pout EXCEPT
                          !.op = "ApplyOperationResult", !.storage = n,
                          !.touched = writes,
                          !.had = mem["A"], !.fileWas = file]
    /\ UNCHANGED <<dvars, rvars, pin, mvars, now, updated, held, flushed, ops>>

\* Flush: nothing without a shared file, else the merge of memory and file
\* is written.
CallFlush ==
    /\ pout.op = "none"
    /\ file' = IF pin.shFileUsed
               THEN fileWrite(file, mergeByRelevance(mem["A"], fileRead(file).content))
               ELSE file
    /\ pout' = [pout EXCEPT !.op = "Flush", !.touched = pin.shFileUsed,
                            !.had = mem["A"], !.fileWas = file]
    /\ UNCHANGED <<dvars, rvars, pin, mvars, now, mem, updated, held, flushed, ops>>

CallNext ==
    \/ CallRead
    \/ CallApplyExplicit
    \/ CallApplyOperation
    \/ CallFlush

SpecCall == CallInit /\ [][CallNext]_vars

(***************************************************************************)
(* Processes that read and write the cache file under the advisory lock    *)
(***************************************************************************)
\* The processes, each making one call of SharedFile.read or SharedFile.write.
FlockProcs == {"p1", "p2", "p3"}

\* The member names and member values the text of a cache file may hold.
FlockNames == <<"default#cfg", "fo1#cfg">>
FlockValues == {"alive", "dead"}

\* Every map a text may parse to, and the maps the processes write: no
\* written map is a mixture of two others.
ParsedMaps ==
    UNION {[ns -> FlockValues] : ns \in SUBSET {FlockNames[i] : i \in DOMAIN FlockNames}}
WrittenMaps ==
    {m \in ParsedMaps : \A n \in DOMAIN m : m[n] = "alive"} \cup
    {m \in ParsedMaps : DOMAIN m = {FlockNames[1], FlockNames[2]} /\ \A n \in DOMAIN m : m[n] = "dead"}

\* json.Marshal: the text of a map, one piece per brace, name and value.
RECURSIVE TextMembers(_, _)
TextMembers(m, i) ==
    IF i > Len(FlockNames) THEN << >>
    ELSE (IF FlockNames[i] \in DOMAIN m THEN <<FlockNames[i], m[FlockNames[i]]>> ELSE << >>)
           \o TextMembers(m, i + 1)

Text(m) == <<"{">> \o TextMembers(m, 1) \o <<"}">>

\* json.Unmarshal: the map of a text that is the text of a map, else an error.
Unmarshal(bytes) ==
    IF \E m \in ParsedMaps : Text(m) = bytes
    THEN [ok |-> TRUE, map |-> CHOOSE m \in ParsedMaps : Text(m) = bytes]
    ELSE [ok |-> FALSE, map |-> << >>]

\* file.Write, one piece of the text at offset pos: a write past the end
\* extends the file.
WriteAt(bytes, pos, piece) ==
    [i \in 1..(IF pos + 1 > Len(bytes) THEN pos + 1 ELSE Len(bytes)) |->
        IF i = pos + 1 THEN piece ELSE IF i <= Len(bytes) THEN bytes[i] ELSE "NUL"]

\* Mutant: the lock is granted at once, whoever holds the file.
LockGranted_AtOnce(sh, ex, exclusive) == TRUE

\* unix.Flock: LOCK_SH is granted when no process holds the file exclusively,
\* LOCK_EX when no process holds it at all; until then the call waits.
LockGranted(sh, ex, exclusive) ==
    IF exclusive THEN ex = "none" /\ sh = {} ELSE ex = "none"

NoFlockCall == [pc |-> "idle", map |-> << >>, pos |-> 0, ok |-> FALSE, got |-> << >>]

\* The file is absent or holds the text of any written map; no process has
\* called yet.
FlockInit ==
    /\ QuietInit
    /\ pin \in {[exists |-> FALSE, map |-> << >>]} \cup [exists : {TRUE}, map : WrittenMaps]
    /\ pout = [exists |-> pin.exists,
               bytes |-> IF pin.exists THEN Text(pin.map) ELSE << >>,
               sh |-> {}, ex |-> "none",
               written |-> IF pin.exists THEN {pin.map} ELSE {},
               p |-> [q \in FlockProcs |-> NoFlockCall]]

\* SharedFile.read: os.OpenFile(O_RDONLY) fails when the file is not there.
ReadOpen(q) ==
    /\ pout.p[q].pc = "idle"
    /\ pout' = [pout EXCEPT !.p[q].pc = IF pout.exists THEN "r_lock" ELSE "done"]
    /\ UNCHANGED <<dvars, cvars, rvars, pin, mvars>>

\* SharedFile.read: lockFile(file, false).
ReadLock(q) ==
    /\ pout.p[q].pc = "r_lock"
    /\ LockGranted(pout.sh, pout.ex, FALSE)
    /\ pout' = [pout EXCEPT !.p[q].pc = "r_read", !.sh = @ \cup {q}]
    /\ UNCHANGED <<dvars, cvars, rvars, pin, mvars>>

\* SharedFile.read: io.ReadAll, json.Unmarshal, and the deferred Close, which
\* gives the lock back.
ReadAll(q) ==
    /\ pout.p[q].pc = "r_read"
    /\ LET r == Unmarshal(pout.bytes)
       IN pout' = [pout EXCEPT !.p[q].pc = "done", !.p[q].ok = r.ok, !.p[q].got = r.map,
                               !.sh = @ \ {q}]
    /\ UNCHANGED <<dvars, cvars, rvars, pin, mvars>>

\* SharedFile.write: os.OpenFile(O_RDWR|O_CREATE) creates an empty file when
\* there is none, before any lock is taken.
WriteOpen(q) ==
    /\ pout.p[q].pc = "idle"
    /\ \E m \in WrittenMaps :
         pout' = [pout EXCEPT !.p[q].pc = "w_lock", !.p[q].map = m,
                              !.exists = TRUE, !.written = @ \cup {m}]
    /\ UNCHANGED <<dvars, cvars, rvars, pin, mvars>>

\* SharedFile.write: lockFile(file, true).
WriteLock(q) ==
    /\ pout.p[q].pc = "w_lock"
    /\ LockGranted(pout.sh, pout.ex, TRUE)
    /\ pout' = [pout EXCEPT !.p[q].pc = "w_trunc", !.ex = q]
    /\ UNCHANGED <<dvars, cvars, rvars, pin, mvars>>

\* SharedFile.write: file.Truncate(len(bytes)).
WriteTruncate(q) ==
    /\ pout.p[q].pc = "w_trunc"
    /\ pout' = [pout EXCEPT !.p[q].pc = "w_write",
                            !.bytes = Truncate(@, Len(Text(pout.p[q].map)))]
    /\ UNCHANGED <<dvars, cvars, rvars, pin, mvars>>

\* SharedFile.write: file.Write(bytes) puts the text into the file piece by
\* piece, from offset 0.
WritePiece(q) ==
    /\ pout.p[q].pc = "w_write"
    /\ pout.p[q].pos < Len(Text(pout.p[q].map))
    /\ pout' = [pout EXCEPT
                  !.p[q].pos = @ + 1,
                  !.bytes = WriteAt(@, pout.p[q].pos, Text(pout.p[q].map)[pout.p[q].pos + 1])]
    /\ UNCHANGED <<dvars, cvars, rvars, pin, mvars>>

\* SharedFile.write returns: the deferred Close gives the lock back.
WriteClose(q) ==
    /\ pout.p[q].pc = "w_write"
    /\ pout.p[q].pos = Len(Text(pout.p[q].map))
    /\ pout' = [pout EXCEPT !.p[q].pc = "done", !.p[q].ok = TRUE,
                            !.ex = IF @ = q THEN "none" ELSE @]
    /\ UNCHANGED <<dvars, cvars, rvars, pin, mvars>>

FlockNext ==
    \E q \in FlockProcs :
        \/ ReadOpen(q)
        \/ ReadLock(q)
        \/ ReadAll(q)
        \/ WriteOpen(q)
        \/ WriteLock(q)
        \/ WriteTruncate(q)
        \/ WritePiece(q)
        \/ WriteClose(q)

SpecFlock == FlockInit /\ [][FlockNext]_vars

(***************************************************************************)
(* ConfigureMultiStorage and the storages it has configured                *)
(***************************************************************************)
\* The most failover storages a configuration names.
MaxFailovers == 2

\* The primary storage is storage 0, the failover storages are 1, 2, ...
Primary == 0

\* Mutant: the deferred function closes nothing.
closeOnError_Never(err, errClosers) == {}

\* The deferred function of ConfigureMultiStorage: on an error return every
\* storage in errClosers is closed, on success none.
closeOnError(err, errClosers) == IF err = "nil" THEN {} ELSE errClosers

\* ConfigureMultiStorage(checkWrite) in a configuration cfg: the error it
\* returns, whether it returns a multi-storage and of which storages, and
\* the storages it has closed.
ConfigureMultiStorage(cfg, checkWrite) ==
    LET failovers == 1..cfg.failovers
        Returns(err, errClosers, aliveChecks) ==
            [err |-> err,
             built |-> err = "nil",
             storages |-> IF err = "nil" THEN {Primary} \cup failovers ELSE {},
             closed |-> closeOnError(err, errClosers),
             checkWrite |-> err = "nil" /\ aliveChecks /\ checkWrite]
        aliveChecks == IF cfg.check = "unset" THEN cfg.failovers > 0 ELSE cfg.check = "true"
    IN IF cfg.primaryFails
       THEN Returns("configure primary storage", {}, FALSE)
       ELSE IF cfg.failoversFail
       THEN Returns("configure failover storages", {Primary}, FALSE)
       ELSE IF cfg.check = "invalid"
       THEN Returns("get failover storage check setting", {Primary} \cup failovers, FALSE)
       ELSE IF aliveChecks /\ ~cfg.lifetime
       THEN Returns("get failover storage cache lifetime setting", {Primary} \cup failovers, TRUE)
       ELSE IF aliveChecks /\ ~cfg.timeout
       THEN Returns("get failover storage check timeout setting", {Primary} \cup failovers, TRUE)
       ELSE Returns("nil", {Primary} \cup failovers, aliveChecks)

\* Any configuration: the primary or the failovers may fail to configure, the
\* check setting may be unset, true, false or unreadable, and the lifetime
\* and timeout settings may be readable or not.
ConfigureInit ==
    /\ QuietInit
    /\ pin \in [primaryFails : BOOLEAN, failoversFail : BOOLEAN, failovers : 0..MaxFailovers,
                check : {"unset", "true", "false", "invalid"},
                lifetime : BOOLEAN, timeout : BOOLEAN, checkWrite : BOOLEAN]
    /\ pout = [done |-> FALSE]

\* handleMessage (and every command) calls ConfigureMultiStorage.
Configure ==
    /\ ~pout.done
    /\ pout' = [done |-> TRUE, r |-> ConfigureMultiStorage(pin, pin.checkWrite)]
    /\ UNCHANGED <<dvars, cvars, rvars, pin, mvars>>

ConfigureNext == Configure

SpecConfigure == ConfigureInit /\ [][ConfigureNext]_vars

(***************************************************************************)
(* Claims about the daemon (checked under Spec)                            *)
(***************************************************************************)
\* The reply bytes written since the frame being served was read.
Replies(c) == SubSeq(conn[c].sent, last[c].base + 1, Len(conn[c].sent))

Closed(c) == pc[c] = "closed"

C5_AbsentSegmentReply ==
    \A c \in Conns :
        (last[c].type = WalFetchType /\ last[c].absent) =>
            /\ Closed(c)
            /\ Replies(c) \in {<<>>, <<ArchiveNonExistenceType>>}
            /\ ~conn[c].broken => Replies(c) = <<ArchiveNonExistenceType>>
            /\ ~last[c].dest

\* C5 witness: an absent segment was answered ArchiveNonExistence.
C5_Witness ==
    \E c \in Conns :
        /\ last[c].type = WalFetchType
        /\ last[c].absent
        /\ Replies(c) = <<ArchiveNonExistenceType>>

C7_TimeoutIsTerminal ==
    \A c \in Conns :
        /\ last[c].attempts <= 1
        /\ pc[c] = "uploading" => last[c].upload = "inflight"
        /\ last[c].upload = "cancelled" =>
               /\ Closed(c)
               /\ Replies(c) \in {<<>>, <<ErrorType>>}
               /\ ~conn[c].broken => Replies(c) = <<ErrorType>>

\* C7 witness: a cancelled upload answered Error.
C7_Witness ==
    \E c \in Conns :
        /\ last[c].upload = "cancelled"
        /\ last[c].attempts = 1
        /\ Replies(c) = <<ErrorType>>

\* C9: a step of one connection's worker, its failure included, leaves the
\* accept loop running and every other connection's worker as it was.
C9_FailureIsLocal ==
    [][\A c \in Conns :
          (pc[c] # "unaccepted" /\ pc'[c] # pc[c]) =>
              /\ listening'
              /\ \A d \in Conns \ {c} :
                     /\ pc'[d] = pc[d]
                     /\ conn'[d] = conn[d]
                     /\ frames'[d] = frames[d]
                     /\ last'[d] = last[d]]_vars

\* C9 witness: one worker failed on a framing error while another worker
\* completed its upload, and the daemon is still accepting.
C9_Witness ==
    \E c, d \in Conns :
        /\ c # d
        /\ listening
        /\ Closed(c) /\ last[c].type = -1 /\ Replies(c) = <<ErrorType>>
        /\ Closed(d) /\ last[d].upload = "ok" /\ Replies(d) = <<OkType>>

(***************************************************************************)
(* Claims about the shared cache file (checked under SpecCache)            *)
(***************************************************************************)
\* Process A holds exactly {default: alive} and process B exactly {fo1: dead},
\* and both have completed Flush before any timed rewrite was due.
BothFlushedDisjoint ==
    /\ flushed["A"] /\ flushed["B"]
    /\ now < FlushTimeout
    /\ DOMAIN mem["A"] = {usedKeys["default"]}
    /\ mem["A"][usedKeys["default"]].Alive
    /\ DOMAIN mem["B"] = {usedKeys["fo1"]}
    /\ ~mem["B"][usedKeys["fo1"]].Alive

\* C3 (as stated): when A holds {default: alive@T1}, B holds {fo1: dead@T2} and
\* both have completed Flush, the file holds both entries, each as its owner
\* holds it, whatever the interleaving of the file reads and file writes.
C3_NoLostUpdate ==
    BothFlushedDisjoint =>
        /\ file.exists
        /\ \A p \in Procs : \A k \in DOMAIN mem[p] :
             /\ KeyString(k) \in DOMAIN file.content
             /\ file.content[KeyString(k)] = mem[p][k]

\* C4 (as stated): a write of the cache file never removes a key the file
\* held and never replaces an entry by one with an earlier checked_at.
C4_FileWritesAreMerges ==
    [][file' # file =>
         \A k \in DOMAIN file.content :
             /\ k \in DOMAIN file'.content
             /\ file'.content[k].Checked >= file.content[k].Checked]_vars

(***************************************************************************)
(* Claims about routing (checked under SpecRoute)                          *)
(***************************************************************************)
\* The daemon's cache holds a relevant fact that says storage n is dead.
RelevantDead(n) ==
    /\ usedKeys[n] \in DOMAIN mem["A"]
    /\ statusIsRelevant(mem["A"][usedKeys[n]], now)
    /\ ~mem["A"][usedKeys[n]].Alive

\* C8: when the operation routed to storage n fails, the cache holds n dead
\* with checked_at = now before the worker has written its reply; and a
\* resolution that starts while the cache holds a relevant dead fact of n
\* neither selects n nor probes it.
C8_FailureRecordedBeforeReply ==
    [][\A w \in Workers :
         /\ (wpc[w] = "resolved" /\ wpc'[w] = "opfailed") =>
                /\ usedKeys[wsel[w]] \in DOMAIN mem'["A"]
                /\ ~mem'["A"][usedKeys[wsel[w]]].Alive
                /\ mem'["A"][usedKeys[wsel[w]]].Checked = now
                /\ wreply'[w] = 0
         /\ (wpc[w] = "idle" /\ wpc'[w] # "idle") =>
                \A n \in Names :
                    RelevantDead(n) => wsel'[w] # n /\ n \notin wout'[w]]_vars

\* One request failed on the primary and was answered Error, and the next
\* one is routed to the failover while the primary is still held dead.
C8_Witness ==
    \E w, v \in Workers :
        /\ wpc[w] = "done" /\ wreply[w] = ErrorType /\ wsel[w] = "default"
        /\ wpc[v] = "resolved" /\ wsel[v] = "fo1"
        /\ RelevantDead("default")

\* C10: the storage a resolution selects has an alive fact in the cache and
\* no storage before it in routing order is known alive (has a relevant
\* alive fact); and when both storages were probed, the primary's probe
\* failed and fo1's succeeded, fo1 is selected and the cache holds default
\* dead and fo1 alive, both with checked_at = now.
C10_FirstAliveInOrder ==
    [][\A w \in Workers :
         /\ (wpc[w] # "resolved" /\ wpc'[w] = "resolved") =>
                /\ wsel'[w] \in Names
                /\ usedKeys[wsel'[w]] \in DOMAIN mem'["A"]
                /\ mem'["A"][usedKeys[wsel'[w]]].Alive
                /\ \A i \in DOMAIN StorageNames :
                     (\E j \in DOMAIN StorageNames :
                          j > i /\ StorageNames[j] = wsel'[w]) =>
                         ~ /\ usedKeys[StorageNames[i]] \in DOMAIN mem'["A"]
                           /\ mem'["A"][usedKeys[StorageNames[i]]].Alive
                           /\ statusIsRelevant(mem'["A"][usedKeys[StorageNames[i]]], now)
         /\ (/\ wpc[w] = "probing" /\ wpc'[w] # "probing"
             /\ wout[w] = Names /\ ~up["default"] /\ up["fo1"]) =>
                /\ wpc'[w] = "resolved" /\ wsel'[w] = "fo1"
                /\ StatusAt(mem'["A"], usedKeys["default"]) =
                       [Alive |-> FALSE, Checked |-> now, Weight |-> 0]
                /\ StatusAt(mem'["A"], usedKeys["fo1"]) =
                       [Alive |-> TRUE, Checked |-> now, Weight |-> 0]]_vars

\* A request is routed to fo1 right after the probes, and the cache holds
\* default dead and fo1 alive as of now.
C10_Witness ==
    \E w \in Workers :
        /\ wpc[w] = "resolved" /\ wsel[w] = "fo1"
        /\ usedKeys["default"] \in DOMAIN mem["A"]
        /\ mem["A"][usedKeys["default"]] =
               [Alive |-> FALSE, Checked |-> now, Weight |-> 0]
        /\ usedKeys["fo1"] \in DOMAIN mem["A"]
        /\ mem["A"][usedKeys["fo1"]] =
               [Alive |-> TRUE, Checked |-> now, Weight |-> 0]

\* C11: a resolution (FirstAlive or AllAlive) that ends, after the Read and
\* the probes of the outdated storages, ends with NoAliveStorage exactly when
\* the cache holds no alive fact of any storage; a request that ended so has
\* no storage selected, runs no folder operation and is answered Error.
C11_NoAliveStorageFails ==
    [][\A w \in Workers :
         /\ (wpc[w] \in {"idle", "probing"} /\ wpc'[w] \notin {"idle", "probing"}) =>
                (wpc'[w] = "noalive" <=>
                     \A n \in Names : ~StatusAt(mem'["A"], usedKeys[n]).Alive)
         /\ wpc[w] = "noalive" =>
                /\ wpc'[w] \in {"noalive", "done"}
                /\ wsel'[w] = ""
                /\ wreply'[w] \in {0, ErrorType}
                /\ wpc'[w] = "done" => wreply'[w] = ErrorType]_vars

\* Both storages were probed and found dead, and the request was answered
\* Error without a storage having been selected.
C11_Witness ==
    \E w \in Workers :
        /\ wpc[w] = "done" /\ wsel[w] = "" /\ wreply[w] = ErrorType
        /\ \A n \in Names :
             /\ usedKeys[n] \in DOMAIN mem["A"]
             /\ ~mem["A"][usedKeys[n]].Alive

\* The daemon's cache holds a relevant fact that says storage n is alive.
RelevantAlive(n) ==
    /\ usedKeys[n] \in DOMAIN mem["A"]
    /\ statusIsRelevant(mem["A"][usedKeys[n]], now)
    /\ mem["A"][usedKeys[n]].Alive

\* C12: under FirstAlive a resolution that starts while the cache holds a
\* relevant alive fact selects a storage with such a fact and probes nothing;
\* a successful operation leaves its storage alive with checked_at = now; and
\* a storage is probed only when the cache holds no relevant fact of it.
C12_RelevantAliveSkipsProbe ==
    [][\A w \in Workers :
         /\ (/\ wpc[w] = "idle" /\ wpc'[w] # "idle" /\ wpol[w] = "FirstAlive"
             /\ \E n \in Names : RelevantAlive(n)) =>
                /\ wpc'[w] = "resolved"
                /\ wout'[w] = {}
                /\ statusIsRelevant(StatusAt(mem'["A"], usedKeys[wsel'[w]]), now)
                /\ StatusAt(mem'["A"], usedKeys[wsel'[w]]).Alive
         /\ (wpc[w] = "resolved" /\ wreply'[w] = OkType) =>
                /\ StatusAt(mem'["A"], usedKeys[wsel[w]]).Alive
                /\ StatusAt(mem'["A"], usedKeys[wsel[w]]).Checked = now
         /\ \A n \in wout'[w] \ wout[w] :
                ~statusIsRelevant(StatusAt(mem["A"], usedKeys[n]), now)]_vars

\* A request is routed, with no probe, to a storage whose fact was last
\* refreshed by an operation at an earlier instant within the TTL.
C12_Witness ==
    \E w \in Workers :
        /\ wpc[w] = "resolved" /\ wpol[w] = "FirstAlive"
        /\ RelevantAlive(wsel[w])
        /\ mem["A"][usedKeys[wsel[w]]].Weight > 0
        /\ mem["A"][usedKeys[wsel[w]]].Checked < now

(***************************************************************************)
(* More claims about the daemon (checked under Spec)                       *)
(***************************************************************************)
\* The alive storages before position i all answered not-found.
EarlierNotFound(a, i) ==
    \A j \in 1..(i - 1) : a[j] \in {"dead", "notfound"}

\* C13: when HandleWALFetch ran over the alive storages, (a) if a storage has
\* the segment and every alive storage before it answered not-found, the
\* segment is read from that storage and the reply is Ok; (b) the reply is
\* ArchiveNonExistence only if every alive storage answered not-found; (c) if
\* a storage answered with another error before any had the segment, the
\* reply is Error: neither Ok nor ArchiveNonExistence is written.
C13_AllAliveReadFallsThrough ==
    \A c \in Conns :
        LET a == last[c].answers IN
        (last[c].type = WalFetchType /\ a # << >>) =>
            /\ \A i \in DOMAIN a :
                 (a[i] = "found" /\ EarlierNotFound(a, i)) =>
                     /\ last[c].from = i
                     /\ last[c].dest
                     /\ Replies(c) \in {<<>>, <<OkType>>}
                     /\ ~conn[c].broken => Replies(c) = <<OkType>>
            /\ (\E k \in DOMAIN Replies(c) : Replies(c)[k] = ArchiveNonExistenceType) =>
                   \A i \in DOMAIN a : a[i] \in {"dead", "notfound"}
            /\ \A i \in DOMAIN a :
                 (a[i] = "error" /\ EarlierNotFound(a, i)) =>
                     /\ last[c].from = 0
                     /\ Replies(c) \in {<<>>, <<ErrorType>>}
                     /\ ~conn[c].broken => Replies(c) = <<ErrorType>>

\* The primary answered not-found and the segment was read from the failover.
C13_Witness ==
    \E c \in Conns :
        /\ last[c].type = WalFetchType
        /\ last[c].answers = <<"notfound", "found">>
        /\ last[c].from = 2
        /\ Replies(c) = <<OkType>>

(***************************************************************************)
(* Claims about backup-list (checked under SpecList)                       *)
(***************************************************************************)
\* How many rows of the listing name backup o in storage n.
RowCount(o, n) ==
    Cardinality({i \in DOMAIN pout.rows :
                    pout.rows[i] = [backup_name |-> o, storage_name |-> n]})

\* C14: the listing under UniteAll over the alive storages has exactly one
\* row for every (backup, storage) pair where the alive storage holds the
\* backup, tagged with that storage's name, and no other row.
C14_UniteAllIsMultisetUnion ==
    pout.done =>
        /\ \A o \in Backups : \A i \in DOMAIN ListStorages :
             RowCount(o, ListStorages[i]) =
                 IF ListStorages[i] \in pin.alive /\ o \in pin.contents[ListStorages[i]]
                 THEN 1 ELSE 0
        /\ \A i \in DOMAIN pout.rows :
             /\ pout.rows[i].backup_name \in Backups
             /\ pout.rows[i].storage_name \in pin.alive

\* The test's case: both storages hold base_111 and the listing has the two
\* rows, storage_1's and storage_2's.
C14_Witness ==
    /\ pout.done
    /\ pin.contents = [n \in {"storage_1", "storage_2"} |-> {111}]
    /\ pout.rows = <<[backup_name |-> 111, storage_name |-> "storage_1"],
                     [backup_name |-> 111, storage_name |-> "storage_2"]>>

(***************************************************************************)
(* Claims about cache.Read (checked under SpecCache)                       *)
(***************************************************************************)
\* The names of a list of storage names.
Requested(names) == {names[i] : i \in DOMAIN names}

\* C15 (as stated): whatever the state Read(names) is called in, the two maps
\* it returns are disjoint and hold requested names only, and a requested
\* name with a known fact is in relevant iff the fact is within the TTL and
\* in outdated otherwise.
C15_ReadSplitsRequestedNames ==
    \A p \in Procs : \A names \in NameLists :
        LET r == cacheRead(mem[p], file, names, now) IN
        /\ DOMAIN r.relevant \cap DOMAIN r.outdated = {}
        /\ DOMAIN r.relevant \cup DOMAIN r.outdated \subseteq Requested(names)
        /\ \A n \in Requested(names) :
             usedKeys[n] \in DOMAIN r.mem =>
                 IF statusIsRelevant(r.mem[usedKeys[n]], now)
                 THEN n \in DOMAIN r.relevant
                 ELSE n \in DOMAIN r.outdated

\* C16 (as stated): when every requested name has a relevant fact in memory,
\* Read does not read the cache file and leaves the in-memory map as it was.
C16_RelevantReadSkipsFile ==
    \A p \in Procs : \A names \in NameLists :
        (\A n \in Requested(names) :
             /\ usedKeys[n] \in DOMAIN mem[p]
             /\ statusIsRelevant(mem[p][usedKeys[n]], now)) =>
            LET r == cacheRead(mem[p], file, names, now) IN
            /\ ~r.fileRead
            /\ r.mem = mem[p]

FullTie(a, b) ==
    \E k \in DOMAIN a \cap DOMAIN b :
        /\ a[k].Checked = b[k].Checked
        /\ a[k].Alive = b[k].Alive
        /\ a[k].Weight # b[k].Weight

\* A status map without the weights.
Unweighted(m) == [k \in DOMAIN m |-> [Alive |-> m[k].Alive, Checked |-> m[k].Checked]]

C18_WriteReadRoundTrip ==
    pout.done =>
        /\ ~pout.read.err
        /\ pout.read.content = pin.m
        /\ \A k \in DOMAIN pin.m : ParseKey(KeyString(k)) = k

\* A map that holds the key whose name contains '#' next to another key has
\* been written over a file that held other facts, and has been read back.
C18_Witness ==
    /\ pout.done
    /\ [Name |-> "fo#2", Hash |-> "cfg"] \in DOMAIN pout.read.content
    /\ usedKeys["default"] \in DOMAIN pout.read.content
    /\ usedKeys["fo1"] \notin DOMAIN pin.m
    /\ pout.read.content[usedKeys["default"]].Alive
    /\ KeyString(usedKeys["fo1"]) \notin DOMAIN file.content

(***************************************************************************)
(* Claims about the time of a fact (checked under SpecCache)               *)
(***************************************************************************)
\* C19: a fact that ApplyExplicitCheckResult or ApplyOperationResult changes
\* at time t has checked_at >= t afterwards, and no later step of the process
\* takes the checked_at of a fact in its memory back: every state that follows
\* a probe of key k at time t has checked_at(k) >= t.
C19_MutationStampsFact ==
    [][\A p \in Procs : \A k \in {usedKeys[n] : n \in Names} :
         /\ StatusAt(mem'[p], k).Checked >= StatusAt(mem[p], k).Checked
         /\ (ops' # ops /\ StatusAt(mem'[p], k) # StatusAt(mem[p], k))
                => StatusAt(mem'[p], k).Checked >= now]_vars

\* Time has passed since a fact was recorded, and the fact has been changed
\* again by its process and carries the present time; the other process has
\* taken up that key from the file.
C19_Witness ==
    /\ now > 0
    /\ ops = MaxOps
    /\ StatusAt(mem["A"], usedKeys["default"]).Checked = now
    /\ StatusAt(mem["A"], usedKeys["default"]).Weight > 0
    /\ StatusAt(mem["A"], usedKeys["fo1"]).Checked = 0
    /\ StatusAt(mem["B"], usedKeys["default"]).Checked >= 0

(***************************************************************************)
(* Claims about a failing cache file (checked under SpecFault)             *)
(***************************************************************************)
\* C20: when the cache file could not be opened, locked, read, parsed or
\* written during Read, ApplyExplicitCheckResult, ApplyOperationResult or
\* Flush, the call still completes, and the in-memory map it leaves, the
\* values it returns and the map Flush goes on to write are those of the same
\* call made with no cache file.
C20_FileFailureIsAbsentFile ==
    pout.fault => pout.asAbsent

\* A Read could not read a file that holds a fact the process does not have.
C20_Witness ==
    /\ pout.op = "Read"
    /\ pout.fault
    /\ file.exists
    /\ KeyString(usedKeys["fo1"]) \in DOMAIN file.content
    /\ usedKeys["fo1"] \notin DOMAIN mem["A"]
    /\ usedKeys["default"] \in DOMAIN mem["A"]

(***************************************************************************)
(* Claims about the timed rewrite (checked under SpecRewrite)              *)
(***************************************************************************)
\* C21 (as stated): an apply call writes the cache file only when this store
\* has not written it within the flush timeout: the first write comes no
\* sooner than the flush timeout after the store was created, and any two
\* writes of the store by apply calls lie at least the flush timeout apart.
C21_ApplyWritesOncePerTimeout ==
    /\ \A i \in DOMAIN pout.writes : pout.writes[i] - updated["A"] >= FlushTimeout
    /\ \A i \in DOMAIN pout.writes : i > 1 =>
           pout.writes[i] - pout.writes[i - 1] >= FlushTimeout

(***************************************************************************)
(* Claims about the mutex of the status store (checked under SpecMutex)    *)
(***************************************************************************)
\* C22: Read, ApplyExplicitCheckResult, ApplyOperationResult and Flush of one
\* store are atomic with respect to each other: a worker reads or writes the
\* in-memory map and the file only while it holds the mutex, at most one
\* worker is inside a call, what a call computes and returns is its result on
\* the map and file as they were when it took the mutex, and the map and file
\* it leaves are that result; so the calls take effect one after the other in
\* the order in which they took the mutex.
C22_CallsAreAtomic ==
    /\ \A w \in Workers :
         call[w].step \in {"locked", "loaded", "stored"} <=> mutex = w
    /\ \A w \in Workers :
         LET c == call[w] IN
         /\ c.step = "locked" => mem["A"] = c.pre.mem /\ file = c.pre.file
         /\ c.step \in {"loaded", "stored"} =>
                c.local = CallResult(c, c.pre.mem, c.pre.file)
         /\ c.step = "loaded" => mem["A"] = c.pre.mem /\ file = c.pre.file
         /\ c.step = "stored" =>
                /\ mem["A"] = c.local.mem
                /\ file = FileAfter(c, c.local, c.pre.file)

\* One worker is inside ApplyOperationResult, between reading the map and
\* assigning it, while the other waits for the mutex to record its own result
\* for the same storage.
C22_Witness ==
    /\ call["w1"].phase = "ApplyOperationResult"
    /\ call["w1"].step = "loaded"
    /\ call["w2"].phase = "ApplyOperationResult"
    /\ call["w2"].step = "want"
    /\ call["w1"].sel = call["w2"].sel

\* C23: no worker holds the mutex of the status store while it waits for an
\* object-store operation (its probes, or the operation on the storage it
\* selected): the mutex is released when Read returns and taken again only to
\* record the results, so whoever holds the mutex is inside a cache call.
C23_NoMutexAcrossIO ==
    \A w \in Workers :
        /\ call[w].phase \in {"probing", "operating"} => mutex # w
        /\ mutex = w => call[w].phase \in CacheCalls

\* One worker still waits for its probes while the other, which started its
\* Read after it, has recorded the result of its operation and is done.
C23_Witness ==
    /\ call["w1"].phase = "probing"
    /\ call["w2"].phase = "done"
    /\ \E k \in DOMAIN mem["A"] : mem["A"][k].Weight > 0

C26_WriteLeavesExactlyTheMap ==
    pout.done => pout.bytes = Marshal(pin.new)

\* A map with one member has been written over the text of a map with two.
C26_Witness ==
    /\ pout.done
    /\ Len(pin.old) > Len(Marshal(pin.new))
    /\ Len(pout.bytes) > Len(Marshal(<< >>))
    /\ Len(pout.bytes) < Len(pin.old)

(***************************************************************************)
(* Claims about the storage a message is handled with (checked under Spec) *)
(***************************************************************************)
\* C27 (as stated): the multi-storage built for a message probes with a
\* write iff the message is a WalPush; for Check and WalFetch (and any other
\* type) it is built without the write probe.
C27_WriteProbeOnlyForWalPush ==
    \A c \in Conns :
        last[c].type \in MessageTypes =>
            (last[c].checkWrite <=> last[c].type = WalPushType)

\* C28 (as stated): a handler whose storage operation never completes is ended
\* by its deadline, for WalFetch as for WalPush: the worker leaves the handler
\* and closes the connection (or the process has exited).
C28_EveryHandlerIsBounded ==
    \A c \in Conns :
        (pc[c] \in {"uploading", "fetching"}) ~> (Closed(c) \/ ~listening)

\* C29: on every path by which a worker leaves Listen (reply sent, handler
\* error, framing error, failed socket write, deadline) its connection has been
\* closed exactly once and nothing was written to it after the close; a worker
\* still in Listen has not closed it.
C29_ClosedOnceAfterLastWrite ==
    \A c \in Conns :
        /\ Closed(c) => conn[c].closes = 1
        /\ ~Closed(c) => conn[c].closes = 0
        /\ ~conn[c].late

\* One worker has left after a failed socket write of a Check reply, the other
\* after the push deadline; both connections are closed.
C29_Witness ==
    /\ Closed("c1") /\ last["c1"].type = CheckType /\ conn["c1"].broken
    /\ Closed("c2") /\ last["c2"].upload = "cancelled"
    /\ conn["c1"].closes = 1 /\ conn["c2"].closes = 1

\* C30 (as stated): correspondingKeys(names) returns one key per requested
\* name, in request order and with no zero-value key: its length is
\* len(names) and its i-th element is usedKeys[names[i]].
C30_OneKeyPerName ==
    pout.op = "Read" =>
        LET keys == correspondingKeys(pout.names) IN
        /\ Len(keys) = Len(pout.names)
        /\ \A i \in 1..Len(pout.names) :
             keys[i] = usedKeys[pout.names[i]] /\ keys[i] # ZeroKey

(***************************************************************************)
(* Claims about the recursive folder listing (checked under SpecTree)      *)
(***************************************************************************)
\* The objects of the folder at path root and of all folders below it, each
\* by its path relative to root.
ObjectsUnder(t, root) ==
    UNION {{TrimPrefix(d, root) \o n : n \in t.objs[d]} :
             d \in {f \in t.dirs : HasPrefix(f, root)}}

\* The sequence holds every member of the set exactly once.
ExactlyOnce(objects, set) ==
    /\ {objects[i] : i \in DOMAIN objects} = set
    /\ Len(objects) = Cardinality(set)

\* C31: for a finite folder tree ListFolderRecursively terminates and returns
\* every object of the entry folder and of its descendant folders exactly
\* once, by its path relative to the entry folder, the objects of a folder
\* before those of any deeper folder reached through it.
C31_ListsEveryObjectBreadthFirst ==
    /\ <>(pout.phase = "done")
    /\ [](pin.call = "all" /\ pout.phase = "done" =>
            /\ ExactlyOnce(pout.objects, ObjectsUnder(pin.tree, pin.entry))
            /\ \A i, j \in DOMAIN pout.objects :
                 LET fi == SubSeq(pout.objects[i], 1, Len(pout.objects[i]) - 1)
                     fj == SubSeq(pout.objects[j], 1, Len(pout.objects[j]) - 1)
                 IN (fi # fj /\ HasPrefix(fj, fi)) => i < j)

\* The listing of folder a of a tree with objects in a and in a/b is done.
C31_Witness ==
    /\ pin.call = "all" /\ pout.phase = "done"
    /\ pin.entry = <<"a">>
    /\ pout.objects = << <<"a">>, <<"x">>, <<"b", "x">> >>

\* C32: ListFolderRecursivelyWithPrefix with a non-empty prefix that does not
\* end in '/' and names an existing object of its parent folder returns that
\* one object by its path relative to the entry folder and lists no
\* sub-folder; in every other case it returns every object under the
\* sub-folder the prefix names, each path starting with the prefix.
C32_PrefixNamesFileOrFolder ==
    (pin.call = "prefix" /\ pout.phase = "done") =>
        LET p == pin.prefix.path
            parent == SubSeq(p, 1, Len(p) - 1)
            namesObject == /\ p # << >>
                           /\ ~pin.prefix.slash
                           /\ parent \in pin.tree.dirs
                           /\ <<p[Len(p)]>> \in pin.tree.objs[parent]
        IN IF namesObject
           THEN /\ pout.objects = <<p>>
                /\ pout.listed = {parent}
           ELSE /\ ExactlyOnce(pout.objects, {p \o o : o \in ObjectsUnder(pin.tree, p)})
                /\ \A i \in DOMAIN pout.objects : HasPrefix(pout.objects[i], p)

\* The prefix "a" names an object of the root although the root also has a
\* folder a with objects of its own: the one object is returned.
C32_Witness ==
    /\ pin.call = "prefix" /\ pout.phase = "done"
    /\ pin.prefix = [path |-> <<"a">>, slash |-> FALSE]
    /\ <<"a">> \in pin.tree.objs[<< >>]
    /\ pin.tree.objs[<<"a">>] # {}
    /\ pout.objects = << <<"a">> >>

(***************************************************************************)
(* Claims about the message reader (checked under SpecFrame)               *)
(***************************************************************************)
\* C33 (as stated): for a header with length field L the reader reads exactly
\* L-3 body bytes when L >= 3; when L < 3 the frame is a framing error and no
\* body byte is asked for or read: the body size never wraps around.
C33_BodySizeNeverWraps ==
    pout.done =>
        IF pin.length >= 3
        THEN /\ pout.asked = pin.length - 3
             /\ ~pout.err => pout.n = pin.length - 3
        ELSE pout.err /\ pout.asked = 0 /\ pout.n = 0

(***************************************************************************)
(* Claims about one cache call with any arguments (checked under SpecCall) *)
(***************************************************************************)
\* C34 (as stated): ApplyExplicitCheckResult and Read called with a storage
\* name that is not configured return the error "unknown storage" and leave
\* the in-memory map and the cache file as they were.
C34_UnknownNameChangesNothing ==
    (pout.op \in {"Read", "ApplyExplicitCheckResult"} /\ unknownStorage(pout.names)) =>
        /\ pout.err = "unknown storage"
        /\ mem["A"] = pout.had
        /\ file = pout.fileWas
        /\ ~pout.touched

\* C35 (as stated): after a cache operation every key of the in-memory map
\* is a value of usedKeys or a key loaded from the cache file; in particular
\* ApplyOperationResult with a storage name that is not configured adds no
\* entry (none under the empty key) and changes no existing entry.
C35_OnlyConfiguredOrLoadedKeys ==
    pout.op # "none" =>
        /\ DOMAIN mem["A"] \subseteq
               {usedKeys[n] : n \in Names} \cup DOMAIN fileRead(pout.fileWas).content
        /\ (pout.op = "ApplyOperationResult" /\ pout.storage \notin Names) =>
               mem["A"] = pout.had

\* C36 (as stated): a store created without a shared file never accesses a
\* file: every operation completes from memory alone, also a Read for a
\* storage whose fact in memory is missing or outdated.
C36_NoFileStoreUsesMemoryOnly ==
    (~pin.shFileUsed /\ pout.op # "none") =>
        /\ ~pout.panic
        /\ ~pout.touched
        /\ file = pout.fileWas

C38_ReadSeesOneWholeWrite ==
    \A q \in FlockProcs :
        /\ (pout.p[q].pc = "done" /\ pout.p[q].ok /\ pout.p[q].pos = 0 /\ pout.p[q].map = << >>) =>
               pout.p[q].got \in pout.written
        /\ pout.p[q].pc = "r_read" =>
               \/ \E m \in pout.written : pout.bytes = Text(m)
               \/ pout.bytes = << >>

\* A process has read the file while another one was waiting for the lock
\* with a map to write, after a third had written: it got the third's map.
C38_Witness ==
    /\ pout.p["p1"].pc = "done" /\ pout.p["p1"].ok /\ pout.p["p1"].pos > 0
    /\ pout.p["p2"].pc = "done" /\ pout.p["p2"].ok /\ pout.p["p2"].pos = 0
    /\ pout.p["p2"].got = pout.p["p1"].map
    /\ pin.exists /\ pin.map # pout.p["p1"].map
    /\ pout.p["p3"].pc = "w_lock"

(***************************************************************************)
(* Claims about messages of no known type (checked under Spec)             *)
(***************************************************************************)
\* C39: a message whose type byte is none of Check, WalPush and WalFetch is
\* answered Error (one Error byte, unless the write to the peer fails), no
\* upload and no fetch is performed for it, and the connection is closed.
C39_UnknownTypeIsRefused ==
    \A c \in Conns :
        last[c].type \notin {CheckType, WalPushType, WalFetchType, 0, -1} =>
            /\ Closed(c) /\ conn[c].closes = 1
            /\ Replies(c) \in {<< >>, <<ErrorType>>}
            /\ ~conn[c].broken => Replies(c) = <<ErrorType>>
            /\ last[c].upload = "none" /\ last[c].attempts = 0
            /\ ~last[c].dest /\ ~last[c].absent /\ last[c].answers = << >>

\* After a Check answered Ok the same connection sent a frame of an unknown
\* type: it got Error and was closed.
C39_Witness ==
    \E c \in Conns :
        /\ last[c].type = UnknownType
        /\ frames[c] = 2
        /\ conn[c].sent = <<OkType, ErrorType>>
        /\ Closed(c)

(***************************************************************************)
(* Claims about ConfigureMultiStorage (checked under SpecConfigure)        *)
(***************************************************************************)
\* C40: on every error return ConfigureMultiStorage has closed every storage
\* it had configured by then (the primary, and the failovers once they are
\* configured) and returns no multi-storage; on success it has closed none
\* and the multi-storage it returns holds all of them.
C40_ErrorClosesWhatWasConfigured ==
    pout.done =>
        LET configured == (IF pin.primaryFails THEN {} ELSE {Primary}) \cup
                          (IF pin.primaryFails \/ pin.failoversFail
                           THEN {} ELSE 1..pin.failovers)
        IN IF pout.r.err # "nil"
           THEN ~pout.r.built /\ pout.r.storages = {} /\ pout.r.closed = configured
           ELSE /\ pout.r.built /\ pout.r.closed = {}
                /\ pout.r.storages = configured
                /\ configured = {Primary} \cup 1..pin.failovers

\* The primary and two failovers were configured and the cache lifetime
\* setting could not be read: all three storages have been closed.
C40_Witness ==
    /\ pout.done
    /\ pout.r.err = "get failover storage cache lifetime setting"
    /\ pout.r.closed = {Primary, 1, 2}

====
